---- MODULE Spec2Model ----
(***************************************************************************)
(* Device gateway of the minecheck backend: the authentication gate        *)
(* (validateDeviceSignature), the three gateway handlers (poll,            *)
(* receiveTelemetry, acknowledgeCommand), the command API's createCommand  *)
(* and the security primitives they use, over the relational store.        *)
(*                                                                         *)
(* Conventions.                                                            *)
(*  - An instant is an integer: milliseconds since Epoch0 =                 *)
(*    2023-12-18T16:00:00.000Z (Unix second 1702915200), so that instants  *)
(*    fit TLC's integers. A JS number holding Unix seconds is the  *)
(*    number of seconds since Epoch0.                                      *)
(*  - A nullable column or an optional JSON field is a set with at most    *)
(*    one element: {} is null / undefined, {v} is the value v.             *)
(*  - Strings are strings; the canonical message is built by               *)
(*    concatenation, as the code does.                                     *)
(***************************************************************************)
EXTENDS Integers, Sequences, FiniteSets, TLC

VARIABLES
    now,        \* Date.now(): the server clock, an instant
    devices,    \* table "Device": a sequence of rows, a row's id is its index
    commands,   \* table "Command": a sequence of rows, a row's id is its index
    telemetry,  \* table "Telemetry": a sequence of rows (append-only)
    slots,      \* the requests in flight: one record per connection
    returned,   \* history: returned[c] = how many poll responses carried command c
    probe       \* a call of a pure security primitive: its arguments and result

vars == <<now, devices, commands, telemetry, slots, returned, probe>>

Null == {}
Some(v) == {v}
IsNull(f) == f = {}
The(f) == CHOOSE v \in f : TRUE

(***************************************************************************)
(* JS values of type string | number, as isTimestampValid receives them.   *)
(***************************************************************************)
JSNumber(n) == [type |-> "number", nan |-> FALSE, n |-> n]
JSNaN == [type |-> "number", nan |-> TRUE, n |-> 0]
JSString(s) == [type |-> "string", s |-> s]

(***************************************************************************)
(* new Date(s).getTime() on the strings the model uses. An ISO 8601        *)
(* date-time parses to its instant. Every other string of the model is no  *)
(* date for V8: "invalid", "", and a 10-digit string of Unix seconds        *)
(* (the legacy parser reads the digits as a year far outside the range of  *)
(* Date, and the time value is NaN).                                       *)
(***************************************************************************)
IsoInstants ==
    ( "2023-12-18T16:09:59.999Z" :> 599999 ) @@
    ( "2023-12-18T16:10:00.000Z" :> 600000 ) @@
    ( "2023-12-18T16:10:00.001Z" :> 600001 ) @@
    ( "2023-12-18T16:03:20.000Z" :> 200000 ) @@
    ( "2023-12-18T16:20:00.000Z" :> 1200000 )

DateGetTime(s) ==
    IF s \in DOMAIN IsoInstants THEN JSNumber(IsoInstants[s]) ELSE JSNaN

(***************************************************************************)
(* isTimestampValid(timestamp, maxAgeSeconds) at server time nowMs.        *)
(* age = (now - messageTime) / 1000 and -60 <= age <= maxAgeSeconds,       *)
(* compared here in milliseconds, which is the same comparison.            *)
(***************************************************************************)
DefaultMaxAgeSeconds == 300
ClockSkewSeconds == 60

isTimestampValid_exclusive(timestamp, maxAgeSeconds, nowMs) ==
    LET messageTime == IF timestamp.type = "number"
                       THEN (IF timestamp.nan THEN JSNaN
                             ELSE JSNumber(timestamp.n * 1000))
                       ELSE DateGetTime(timestamp.s)
    IN  IF messageTime.nan THEN FALSE
        ELSE LET ageMs == nowMs - messageTime.n
             IN  /\ ageMs > -(ClockSkewSeconds * 1000)
                 /\ ageMs < maxAgeSeconds * 1000

isTimestampValid(timestamp, maxAgeSeconds, nowMs) ==
    LET messageTime == IF timestamp.type = "number"
                       THEN (IF timestamp.nan THEN JSNaN
                             ELSE JSNumber(timestamp.n * 1000))
                       ELSE DateGetTime(timestamp.s)
    IN  IF messageTime.nan THEN FALSE
        ELSE LET ageMs == nowMs - messageTime.n
             IN  /\ ageMs >= -(ClockSkewSeconds * 1000)
                 /\ ageMs <= maxAgeSeconds * 1000

(***************************************************************************)
(* JSON. A request body is an object over the keys below; a key that is    *)
(* absent from the object holds Null. express.json() parses the bytes of   *)
(* the body into the object (index.ts), JSON.stringify writes an object    *)
(* in the compact form, keys in the order of the text parsed. Numbers are  *)
(* scaled integers: a voltage in 1/100 V, a coordinate in 1/1000 degree or *)
(* metre.                                                                  *)
(***************************************************************************)
BodyKeys ==
    << "boardId", "commandId", "success", "responseData", "messageType",
       "latitude", "longitude", "altitude", "batteryVoltage" >>

EmptyBody == [k \in { BodyKeys[i] : i \in DOMAIN BodyKeys } |-> Null]

NumberKeys == {"latitude", "longitude", "altitude", "batteryVoltage"}

\* The battery voltages devices report, in 1/100 V: from below the empty
\* reference to above the full one.
ReportedVoltages == 295 .. 425

\* The shortest decimal form of a voltage: 318 is 3.18, 420 is 4.2, 300 is 3.
VoltageText(v) ==
    ToString(v \div 100)
    \o (IF v % 100 = 0 THEN ""
        ELSE "." \o ToString((v % 100) \div 10)
                 \o (IF v % 10 = 0 THEN "" ELSE ToString(v % 10)))

\* The shortest decimal form of a number, as JSON.stringify writes it.
NumberText ==
    [v \in ReportedVoltages |-> VoltageText(v)] @@
    ( 0 :> "0" ) @@
    ( 40713 :> "40.713" ) @@ ( -74006 :> "-74.006" ) @@ ( 245500 :> "245.5" )

\* Another decimal form of the same number, as a device may write it.
PaddedNumberText ==
    ( 318 :> "3.180" ) @@ ( 372 :> "3.720" ) @@ ( 420 :> "4.20" ) @@
    ( 40713 :> "40.7130" ) @@ ( -74006 :> "-74.0060" ) @@ ( 245500 :> "245.50" )

CommandIdText(c) == "cmd" \o ToString(c)

\* One value of the text of an object; style is how the writer formats it.
ValueText(k, v, style) ==
    CASE k \in NumberKeys ->
            IF style = "padded" THEN PaddedNumberText[v] ELSE NumberText[v]
      [] k = "success" -> IF v THEN "true" ELSE "false"
      [] k = "commandId" -> "\"" \o CommandIdText(v) \o "\""
      [] k = "responseData" -> v
      [] OTHER -> "\"" \o v \o "\""

RECURSIVE MembersText(_, _, _, _)
MembersText(obj, i, style, first) ==
    IF i > Len(BodyKeys) THEN ""
    ELSE LET k == BodyKeys[i]
         IN  IF IsNull(obj[k]) THEN MembersText(obj, i + 1, style, first)
             ELSE (IF first THEN "" ELSE IF style = "spaced" THEN ", " ELSE ",")
                  \o "\"" \o k \o "\""
                  \o (IF style = "spaced" THEN ": " ELSE ":")
                  \o ValueText(k, The(obj[k]), style)
                  \o MembersText(obj, i + 1, style, FALSE)

\* The bytes of a body as a client writes them in a given style. express.json()
\* maps these bytes back to obj, whatever the style.
BodyText(obj, style) == "{" \o MembersText(obj, 1, style, TRUE) \o "}"

JSONStringify(obj) == BodyText(obj, "compact")

(***************************************************************************)
(* computeHMAC: HMAC-SHA256 as an ideal keyed hash: the digest names the   *)
(* secret and the message, so two digests are equal iff both are.          *)
(***************************************************************************)
computeHMAC(secret, message) == "hmac<" \o secret \o ">(" \o message \o ")"

\* Signature header values that are not hex digests of 64 characters.
MalformedSignatures == {"not-hex", "abcd"}

\* A digest stands for its 64 hex digits, the text of DigestBytes bytes.
DigestBytes == 32

HexValue ==
    ( "0" :> 0 ) @@ ( "1" :> 1 ) @@ ( "2" :> 2 ) @@ ( "3" :> 3 ) @@ ( "4" :> 4 ) @@
    ( "5" :> 5 ) @@ ( "6" :> 6 ) @@ ( "7" :> 7 ) @@ ( "8" :> 8 ) @@ ( "9" :> 9 ) @@
    ( "a" :> 10 ) @@ ( "b" :> 11 ) @@ ( "c" :> 12 ) @@ ( "d" :> 13 ) @@ ( "e" :> 14 ) @@
    ( "f" :> 15 ) @@ ( "A" :> 10 ) @@ ( "B" :> 11 ) @@ ( "C" :> 12 ) @@ ( "D" :> 13 ) @@
    ( "E" :> 14 ) @@ ( "F" :> 15 )

CharAt(s, i) == SubSeq(s, i, i)

RECURSIVE LastIndexOf(_, _, _)
LastIndexOf(s, c, i) ==
    IF i = 0 THEN 0 ELSE IF CharAt(s, i) = c THEN i ELSE LastIndexOf(s, c, i - 1)

\* Where the digest at the head of a string ends (0: the string has none).
DigestEnd(s) ==
    IF Len(s) >= 5 /\ SubSeq(s, 1, 5) = "hmac<" THEN LastIndexOf(s, ")", Len(s)) ELSE 0

\* The bytes of the hex digits of s from position i on: decoding takes whole
\* pairs of hex digits and stops at the first pair that is not one.
RECURSIVE HexPairs(_, _)
HexPairs(s, i) ==
    IF i + 1 > Len(s) THEN << >>
    ELSE IF CharAt(s, i) \notin DOMAIN HexValue \/ CharAt(s, i + 1) \notin DOMAIN HexValue
    THEN << >>
    ELSE << 16 * HexValue[CharAt(s, i)] + HexValue[CharAt(s, i + 1)] >> \o HexPairs(s, i + 2)

\* Buffer.from(s, 'hex'): the bytes of a leading digest, then of the pairs after it.
BufferFromHex(s) ==
    [ digest |-> SubSeq(s, 1, DigestEnd(s)), tail |-> HexPairs(s, DigestEnd(s) + 1) ]

ByteLength(buffer) == (IF buffer.digest = "" THEN 0 ELSE DigestBytes) + Len(buffer.tail)

\* verifyHMAC: crypto.timingSafeEqual over the two decoded buffers; it throws
\* when their byte lengths differ, which is caught: false.
verifyHMAC(secret, message, signature) ==
    LET expected == computeHMAC(secret, message)
        a == BufferFromHex(expected)
        b == BufferFromHex(signature)
    IN  IF ByteLength(a) # ByteLength(b) THEN FALSE
        ELSE a = b

\* buildCanonicalMessage(boardId, timestamp, method, payload?): payload is
\* Null (undefined), a string, or an object, which is stringified.
StringPayload(s) == [kind |-> "string", s |-> s, obj |-> EmptyBody]
ObjectPayload(o) == [kind |-> "object", s |-> "", obj |-> o]

\* (buildCanonicalMessage_trailingSeparator: the separator also without payload.)
buildCanonicalMessage_trailingSeparator(boardId, timestamp, method, payload) ==
    LET parts == boardId \o "|" \o timestamp \o "|" \o method
    IN  IF IsNull(payload) THEN parts \o "|"
        ELSE LET p == The(payload)
                 payloadStr == IF p.kind = "string" THEN p.s
                               ELSE JSONStringify(p.obj)
             IN  parts \o "|" \o payloadStr

buildCanonicalMessage(boardId, timestamp, method, payload) ==
    LET parts == boardId \o "|" \o timestamp \o "|" \o method
    IN  IF IsNull(payload) THEN parts
        ELSE LET p == The(payload)
                 payloadStr == IF p.kind = "string" THEN p.s
                               ELSE JSONStringify(p.obj)
             IN  parts \o "|" \o payloadStr

(***************************************************************************)
(* The store. Enumerations in the order the migration declares them.       *)
(***************************************************************************)
CommandPriority == << "CRITICAL", "HIGH", "NORMAL", "LOW" >>
CommandStatus == {"PENDING", "PROCESSING", "COMPLETED", "FAILED", "TIMEOUT"}
DeviceStatus == {"ONLINE", "OFFLINE", "DISCOVERED", "LOW_BATTERY"}
TelemetryMessageTypes ==
    {"MSG_TYPE_POSA", "MSG_TYPE_BATT", "MSG_TYPE_GPS", "MSG_TYPE_COORD", "MSG_TYPE_PING",
     "MSG_TYPE_PONG", "MSG_TYPE_SET_R", "MSG_TYPE_RES_ID", "MSG_TYPE_MSG"}
CommandMessageTypes == TelemetryMessageTypes \cup {"MSG_TYPE_IGNITE"}

\* The position of an enum value in its declaration: the store's sort key.
EnumOrdinal(enum, v) == CHOOSE i \in DOMAIN enum : enum[i] = v

BoardIdLength == 12

\* Networks, their owners and guests (written by the network API only).
Networks == {"net1", "net2"}
NetworkOwner == ( "net1" :> "owner1" ) @@ ( "net2" :> "owner2" )
NetworkGuests ==
    { [networkId |-> "net1", userId |-> "commander", permission |-> "COMMANDER"],
      [networkId |-> "net1", userId |-> "viewer", permission |-> "VIEW_ONLY"] }
UserRole ==
    ( "owner1" :> "USER" ) @@ ( "owner2" :> "USER" ) @@ ( "commander" :> "GUEST" ) @@
    ( "viewer" :> "GUEST" ) @@ ( "admin" :> "MEGA_ADMIN" ) @@ ( "stranger" :> "USER" )

\* A row of "Device" as registerDevice creates it (status OFFLINE), with the
\* secret provisionDeviceSecrets gave it, if any.
RegisteredDevice(boardId, deviceType, networkId, secret) ==
    [ boardId |-> boardId, deviceType |-> deviceType, networkId |-> networkId,
      status |-> "OFFLINE", latitude |-> Null, longitude |-> Null, altitude |-> Null,
      batteryVoltage |-> Null, batteryPercent |-> Null, lastSeen |-> Null,
      lastPolled |-> Null, deviceSecret |-> secret ]

\* prisma.device.findUnique({where: {boardId}}): the ids of the rows found.
DeviceByBoardId(devs, boardId) == { i \in DOMAIN devs : devs[i].boardId = boardId }

\* JS truthiness of an optional string.
Truthy(s) == ~IsNull(s) /\ The(s) # ""

(***************************************************************************)
(* Requests and responses. A request names the route (op: the last segment *)
(* of the path; poll is GET, telemetry and ack are POST), the two headers, *)
(* the boardId query parameter and the body: the object express.json()     *)
(* parsed and the style its bytes were written in.                         *)
(***************************************************************************)
Request(op, timestamp, signature, query, body, style) ==
    [ op |-> op, timestamp |-> timestamp, signature |-> signature,
      query |-> query, body |-> body, style |-> style ]

HttpMethod(req) == IF req.op = "poll" THEN "GET" ELSE "POST"

\* A response: the status, the error text, the ids its body names, and the
\* "Device" rows its body carries in full (res.json of a row read without a
\* select writes every column of the row).
Response(status, error) ==
    [ status |-> status, error |-> error, commandId |-> Null, deviceId |-> Null,
      included |-> {} ]

Admitted(device) ==
    [ status |-> 0, error |-> "", commandId |-> Null, deviceId |-> Some(device),
      included |-> {} ]

\* middleware validateDeviceSignature, up to next(): the response it sends, or
\* Admitted(device) with the device it attaches to the request.
\* (GateDecision_boardIdFirst: the same with the boardId looked for before the
\* timestamp is checked.)
GateDecision_boardIdFirst(req, devs, nowMs) ==
    IF ~Truthy(req.timestamp) \/ ~Truthy(req.signature)
    THEN Response(401, "Authentication required")
    ELSE LET boardId == IF Truthy(req.query) THEN req.query ELSE req.body.boardId
         IN  IF ~Truthy(boardId) THEN Response(400, "Missing boardId")
             ELSE IF ~isTimestampValid(JSString(The(req.timestamp)), DefaultMaxAgeSeconds,
                                       nowMs)
             THEN Response(401, "Invalid timestamp")
             ELSE LET device == DeviceByBoardId(devs, The(boardId))
                  IN  IF device = {} THEN Response(404, "Device not found")
                      ELSE IF ~Truthy(devs[The(device)].deviceSecret)
                      THEN Response(403, "Device not provisioned")
                      ELSE LET method == req.op
                               payload == IF HttpMethod(req) = "POST"
                                          THEN Some(ObjectPayload(req.body))
                                          ELSE Null
                               canonicalMessage ==
                                   buildCanonicalMessage(The(boardId), The(req.timestamp),
                                                         method, payload)
                               isValid == verifyHMAC(The(devs[The(device)].deviceSecret),
                                                     canonicalMessage, The(req.signature))
                           IN  IF ~isValid THEN Response(401, "Invalid signature")
                               ELSE Admitted(The(device))

\* (GateDecision_bodyFirst: the same with the boardId of the body taken before
\* the one of the query string.)
GateDecision_bodyFirst(req, devs, nowMs) ==
    IF ~Truthy(req.timestamp) \/ ~Truthy(req.signature)
    THEN Response(401, "Authentication required")
    ELSE IF ~isTimestampValid(JSString(The(req.timestamp)), DefaultMaxAgeSeconds, nowMs)
    THEN Response(401, "Invalid timestamp")
    ELSE LET boardId == IF Truthy(req.body.boardId) THEN req.body.boardId ELSE req.query
         IN  IF ~Truthy(boardId) THEN Response(400, "Missing boardId")
             ELSE LET device == DeviceByBoardId(devs, The(boardId))
                  IN  IF device = {} THEN Response(404, "Device not found")
                      ELSE IF ~Truthy(devs[The(device)].deviceSecret)
                      THEN Response(403, "Device not provisioned")
                      ELSE LET method == req.op
                               payload == IF HttpMethod(req) = "POST"
                                          THEN Some(ObjectPayload(req.body))
                                          ELSE Null
                               canonicalMessage ==
                                   buildCanonicalMessage(The(boardId), The(req.timestamp),
                                                         method, payload)
                               isValid == verifyHMAC(The(devs[The(device)].deviceSecret),
                                                     canonicalMessage, The(req.signature))
                           IN  IF ~isValid THEN Response(401, "Invalid signature")
                               ELSE Admitted(The(device))

GateDecision(req, devs, nowMs) ==
    IF ~Truthy(req.timestamp) \/ ~Truthy(req.signature)
    THEN Response(401, "Authentication required")
    ELSE IF ~isTimestampValid(JSString(The(req.timestamp)), DefaultMaxAgeSeconds, nowMs)
    THEN Response(401, "Invalid timestamp")
    ELSE LET boardId == IF Truthy(req.query) THEN req.query ELSE req.body.boardId
         IN  IF ~Truthy(boardId) THEN Response(400, "Missing boardId")
             ELSE LET device == DeviceByBoardId(devs, The(boardId))
                  IN  IF device = {} THEN Response(404, "Device not found")
                      ELSE IF ~Truthy(devs[The(device)].deviceSecret)
                      THEN Response(403, "Device not provisioned")
                      ELSE LET method == req.op
                               payload == IF HttpMethod(req) = "POST"
                                          THEN Some(ObjectPayload(req.body))
                                          ELSE Null
                               canonicalMessage ==
                                   buildCanonicalMessage(The(boardId), The(req.timestamp),
                                                         method, payload)
                               isValid == verifyHMAC(The(devs[The(device)].deviceSecret),
                                                     canonicalMessage, The(req.signature))
                           IN  IF ~isValid THEN Response(401, "Invalid signature")
                               ELSE Admitted(The(device))

(***************************************************************************)
(* A connection. pc is the await the request is at; row and pick are the   *)
(* rows its handler holds (poll: baseStation and pendingCommand; telemetry:*)
(* device and anyBaseStation; ack: command).                               *)
(***************************************************************************)
Idle == [ pc |-> "idle", req |-> Null, device |-> Null, row |-> Null, pick |-> Null,
          res |-> Null ]

Answer(slot, res) == [slot EXCEPT !.pc = "done", !.res = Some(res)]

\* router.<method>(path, validateDeviceSignature, handler): a request arrives on
\* a free connection and runs the gate; an admitted one goes on to its handler.
validateDeviceSignature(r, req) ==
    /\ slots[r].pc \in {"idle", "done"}
    /\ LET d == GateDecision(req, devices, now)
       IN  slots' = [slots EXCEPT ![r] =
                IF d.status = 0
                THEN [Idle EXCEPT !.pc = req.op, !.req = Some(req), !.device = d.deviceId]
                ELSE Answer([Idle EXCEPT !.req = Some(req)], d)]
    /\ UNCHANGED <<now, devices, commands, telemetry, returned, probe>>

(***************************************************************************)
(* poll: GET /api/gateway/poll. One action per store call of the handler.  *)
(***************************************************************************)
\* pollSchema.parse(req.query)
PollQueryValid(req) == ~IsNull(req.query) /\ Len(The(req.query)) = BoardIdLength

\* prisma.device.findFirst({where: {boardId, deviceType: 'BASE_STATION'}})
\* (BaseStationByBoardId_anyType: the query without the clause on deviceType.)
BaseStationByBoardId_anyType(devs, boardId) == DeviceByBoardId(devs, boardId)

BaseStationByBoardId(devs, boardId) ==
    { i \in DeviceByBoardId(devs, boardId) : devs[i].deviceType = "BASE_STATION" }

pollFindBaseStation(r) ==
    /\ slots[r].pc = "poll"
    /\ LET req == The(slots[r].req)
       IN  slots' = [slots EXCEPT ![r] =
                IF ~PollQueryValid(req) THEN Answer(@, Response(400, "Invalid input"))
                ELSE LET baseStation == BaseStationByBoardId(devices, The(req.query))
                     IN  IF baseStation = {}
                         THEN Answer(@, Response(404, "Base station not registered"))
                         ELSE [@ EXCEPT !.pc = "poll_update", !.row = baseStation]]
    /\ UNCHANGED <<now, devices, commands, telemetry, returned, probe>>

\* prisma.device.update: lastPolled, lastSeen, status
\* (pollUpdateDevice_noLastPolled: the update without lastPolled.)
pollUpdateDevice_noLastPolled(r) ==
    /\ slots[r].pc = "poll_update"
    /\ devices' = [devices EXCEPT ![The(slots[r].row)] =
            [@ EXCEPT !.lastSeen = Some(now), !.status = "ONLINE"]]
    /\ slots' = [slots EXCEPT ![r].pc = "poll_select"]
    /\ UNCHANGED <<now, commands, telemetry, returned, probe>>

\* (pollUpdateDevice_expireProcessing: the poll also closes the commands the
\* base station holds in PROCESSING as TIMEOUT.)
pollUpdateDevice_expireProcessing(r) ==
    /\ slots[r].pc = "poll_update"
    /\ devices' = [devices EXCEPT ![The(slots[r].row)] =
            [@ EXCEPT !.lastPolled = Some(now), !.lastSeen = Some(now), !.status = "ONLINE"]]
    /\ commands' = [c \in DOMAIN commands |->
            IF commands[c].status = "PROCESSING" /\ commands[c].sourceDeviceId = slots[r].row
            THEN [commands[c] EXCEPT !.status = "TIMEOUT"]
            ELSE commands[c]]
    /\ slots' = [slots EXCEPT ![r].pc = "poll_select"]
    /\ UNCHANGED <<now, telemetry, returned, probe>>

pollUpdateDevice(r) ==
    /\ slots[r].pc = "poll_update"
    /\ devices' = [devices EXCEPT ![The(slots[r].row)] =
            [@ EXCEPT !.lastPolled = Some(now), !.lastSeen = Some(now), !.status = "ONLINE"]]
    /\ slots' = [slots EXCEPT ![r].pc = "poll_select"]
    /\ UNCHANGED <<now, commands, telemetry, returned, probe>>

\* The where clause of the command query.
\* (PendingFor_anySource: the same without the clause on sourceDeviceId.)
PendingFor_anySource(cmds, devs, baseStation) ==
    { c \in DOMAIN cmds :
        /\ cmds[c].networkId = devs[baseStation].networkId
        /\ cmds[c].status = "PENDING" }

\* (PendingFor_allPending: the query with the clause on the status alone.)
PendingFor_allPending(cmds, devs, baseStation) ==
    { c \in DOMAIN cmds : cmds[c].status = "PENDING" }

PendingFor(cmds, devs, baseStation) ==
    { c \in DOMAIN cmds :
        /\ cmds[c].networkId = devs[baseStation].networkId
        /\ cmds[c].status = "PENDING"
        /\ \/ cmds[c].sourceDeviceId = Some(baseStation)
           \/ cmds[c].sourceDeviceId = Null }

\* orderBy [{priority: 'desc'}, {createdAt: 'asc'}]: a sorts before b.
\* The store compares an enum column by the position in its declaration.
SortsBefore(cmds, a, b) ==
    \/ EnumOrdinal(CommandPriority, cmds[a].priority)
         > EnumOrdinal(CommandPriority, cmds[b].priority)
    \/ /\ cmds[a].priority = cmds[b].priority
       /\ cmds[a].createdAt < cmds[b].createdAt

\* findFirst: the rows no other row sorts before (one of them is returned).
FirstPending(cmds, devs, baseStation) ==
    LET found == PendingFor(cmds, devs, baseStation)
    IN  { c \in found : \A d \in found : ~SortsBefore(cmds, d, c) }

\* (pollFindCommand_noneFound: the query that finds no command.)
pollFindCommand_noneFound(r) ==
    /\ slots[r].pc = "poll_select"
    /\ slots' = [slots EXCEPT ![r] = Answer(@, Response(204, ""))]
    /\ UNCHANGED <<now, devices, commands, telemetry, returned, probe>>

pollFindCommand(r) ==
    /\ slots[r].pc = "poll_select"
    /\ LET first == FirstPending(commands, devices, The(slots[r].row))
       IN  IF first = {}
           THEN slots' = [slots EXCEPT ![r] = Answer(@, Response(204, ""))]
           ELSE \E pendingCommand \in first :
                    slots' = [slots EXCEPT ![r] =
                        [@ EXCEPT !.pc = "poll_mark", !.pick = Some(pendingCommand)]]
    /\ UNCHANGED <<now, devices, commands, telemetry, returned, probe>>

\* prisma.command.update({where: {id}, data: {status: 'PROCESSING', dispatchedAt}})
\* and res.json({commandId, ...})
\* (pollMarkProcessing_noDispatchedAt: the update without dispatchedAt.)
pollMarkProcessing_noDispatchedAt(r) ==
    /\ slots[r].pc = "poll_mark"
    /\ LET c == The(slots[r].pick)
       IN  /\ commands' = [commands EXCEPT ![c] =
                   [@ EXCEPT !.status = "PROCESSING"]]
           /\ slots' = [slots EXCEPT ![r] =
                   Answer(@, [Response(200, "") EXCEPT !.commandId = Some(c)])]
           /\ returned' = [returned EXCEPT ![c] = @ + 1]
    /\ UNCHANGED <<now, devices, telemetry, probe>>

pollMarkProcessing(r) ==
    /\ slots[r].pc = "poll_mark"
    /\ LET c == The(slots[r].pick)
       IN  /\ commands' = [commands EXCEPT ![c] =
                   [@ EXCEPT !.status = "PROCESSING", !.dispatchedAt = Some(now)]]
           /\ slots' = [slots EXCEPT ![r] =
                   Answer(@, [Response(200, "") EXCEPT !.commandId = Some(c)])]
           /\ returned' = [returned EXCEPT ![c] = @ + 1]
    /\ UNCHANGED <<now, devices, telemetry, probe>>

(***************************************************************************)
(* acknowledgeCommand: POST /api/gateway/ack.                              *)
(***************************************************************************)
\* prisma.command.findUnique({where: {id: commandId}}); an undefined id makes
\* the call throw, which the handler answers with 500.
ackFindCommand(r) ==
    /\ slots[r].pc = "ack"
    /\ LET body == The(slots[r].req).body
       IN  slots' = [slots EXCEPT ![r] =
                IF IsNull(body.commandId) THEN Answer(@, Response(500, "Internal server error"))
                ELSE IF The(body.commandId) \notin DOMAIN commands
                THEN Answer(@, Response(404, "Command not found"))
                ELSE [@ EXCEPT !.pc = "ack_update", !.row = body.commandId]]
    /\ UNCHANGED <<now, devices, commands, telemetry, returned, probe>>

\* The JSON texts of the values that are falsy in JavaScript.
FalsyJson == {"0", "false", "null", "\"\""}

\* responseData || {}
ResponseDataOrEmpty(responseData) ==
    IF IsNull(responseData) \/ The(responseData) \in FalsyJson THEN Some("{}")
    ELSE responseData

\* prisma.command.update: status, completedAt, responseData || {}
\* (ackUpdateCommand_failRepeat: an acknowledge of a command that has a
\* completedAt marks it FAILED.)
ackUpdateCommand_failRepeat(r) ==
    /\ slots[r].pc = "ack_update"
    /\ LET body == The(slots[r].req).body
           success == ~IsNull(body.success) /\ The(body.success)
       IN  commands' = [commands EXCEPT ![The(slots[r].row)] =
               [@ EXCEPT !.status = IF success /\ IsNull(commands[The(slots[r].row)].completedAt)
                                    THEN "COMPLETED" ELSE "FAILED",
                         !.completedAt = Some(now),
                         !.responseData = ResponseDataOrEmpty(body.responseData)]]
    /\ slots' = [slots EXCEPT ![r] = Answer(@, Response(200, ""))]
    /\ UNCHANGED <<now, devices, telemetry, returned, probe>>

ackUpdateCommand(r) ==
    /\ slots[r].pc = "ack_update"
    /\ LET body == The(slots[r].req).body
           success == ~IsNull(body.success) /\ The(body.success)
       IN  commands' = [commands EXCEPT ![The(slots[r].row)] =
               [@ EXCEPT !.status = IF success THEN "COMPLETED" ELSE "FAILED",
                         !.completedAt = Some(now),
                         !.responseData = ResponseDataOrEmpty(body.responseData)]]
    /\ slots' = [slots EXCEPT ![r] = Answer(@, Response(200, ""))]
    /\ UNCHANGED <<now, devices, telemetry, returned, probe>>

(***************************************************************************)
(* receiveTelemetry: POST /api/gateway/telemetry.                          *)
(***************************************************************************)
\* telemetrySchema.parse(req.body)
TelemetryBodyValid(body) ==
    /\ ~IsNull(body.boardId) /\ Len(The(body.boardId)) = BoardIdLength
    /\ ~IsNull(body.messageType) /\ The(body.messageType) \in TelemetryMessageTypes

\* Li-ion reference voltages in 1/100 V and the low-battery threshold.
MinVoltage == 300
MaxVoltage == 420
LowBatteryPercent == 20

Max(a, b) == IF a >= b THEN a ELSE b
Min(a, b) == IF a <= b THEN a ELSE b

\* Math.round(x) of an exact ratio: the integer nearest to it, halves upward.
RoundRatio(num, den) == (2 * num + den) \div (2 * den)

\* The voltages between the references whose percentage is a half in exact
\* arithmetic and falls just below the half in the double arithmetic of
\* (batteryVoltage - minVoltage) / (maxVoltage - minVoltage) * 100, so that
\* Math.round takes it downward (3.03 V gives 2.4999999999999836).
HalvesBelow == {303, 309, 315, 321, 327, 351, 357, 363, 369, 375, 405, 417}

\* (BatteryPercent_noClamp: the percentage without Math.max and Math.min.)
BatteryPercent_noClamp(batteryVoltage) ==
    LET percentage ==
            RoundRatio((batteryVoltage - MinVoltage) * 100, MaxVoltage - MinVoltage)
            - (IF batteryVoltage \in HalvesBelow THEN 1 ELSE 0)
    IN  percentage

BatteryPercent(batteryVoltage) ==
    LET percentage ==
            RoundRatio((batteryVoltage - MinVoltage) * 100, MaxVoltage - MinVoltage)
            - (IF batteryVoltage \in HalvesBelow THEN 1 ELSE 0)
    IN  Max(0, Min(100, percentage))

telemetryFindDevice(r) ==
    /\ slots[r].pc = "telemetry"
    /\ LET telemetryData == The(slots[r].req).body
       IN  slots' = [slots EXCEPT ![r] =
                IF ~TelemetryBodyValid(telemetryData)
                THEN Answer(@, Response(400, "Invalid input"))
                ELSE LET device == DeviceByBoardId(devices, The(telemetryData.boardId))
                     IN  IF device = {} THEN [@ EXCEPT !.pc = "telemetry_discover"]
                         ELSE [@ EXCEPT !.pc = "telemetry_update", !.row = device]]
    /\ UNCHANGED <<now, devices, commands, telemetry, returned, probe>>

\* prisma.device.findFirst({where: {deviceType: 'BASE_STATION'}}): any of them
\* (telemetryFindAnyBaseStation_anyDevice: the query without the where clause.)
telemetryFindAnyBaseStation_anyDevice(r) ==
    /\ slots[r].pc = "telemetry_discover"
    /\ LET baseStations == DOMAIN devices
       IN  IF baseStations = {}
           THEN slots' = [slots EXCEPT ![r] =
                    Answer(@, Response(400, "No base station available for auto-discovery"))]
           ELSE \E anyBaseStation \in baseStations :
                    slots' = [slots EXCEPT ![r] =
                        [@ EXCEPT !.pc = "telemetry_create", !.pick = Some(anyBaseStation)]]
    /\ UNCHANGED <<now, devices, commands, telemetry, returned, probe>>

telemetryFindAnyBaseStation(r) ==
    /\ slots[r].pc = "telemetry_discover"
    /\ LET baseStations == { i \in DOMAIN devices : devices[i].deviceType = "BASE_STATION" }
       IN  IF baseStations = {}
           THEN slots' = [slots EXCEPT ![r] =
                    Answer(@, Response(400, "No base station available for auto-discovery"))]
           ELSE \E anyBaseStation \in baseStations :
                    slots' = [slots EXCEPT ![r] =
                        [@ EXCEPT !.pc = "telemetry_create", !.pick = Some(anyBaseStation)]]
    /\ UNCHANGED <<now, devices, commands, telemetry, returned, probe>>

\* prisma.device.create; the unique index on boardId makes it throw when a row
\* with this boardId exists by now, which the handler answers with 500.
\* (telemetryCreateDevice_noUniqueIndex: the table without the unique index.)
telemetryCreateDevice_noUniqueIndex(r) ==
    /\ slots[r].pc = "telemetry_create"
    /\ LET telemetryData == The(slots[r].req).body
           boardId == The(telemetryData.boardId)
       IN  IF FALSE
           THEN /\ slots' = [slots EXCEPT ![r] =
                        Answer(@, Response(500, "Internal server error"))]
                /\ UNCHANGED devices
           ELSE /\ devices' = Append(devices,
                        [ boardId |-> boardId, deviceType |-> "FIELD_UNIT",
                          networkId |-> devices[The(slots[r].pick)].networkId,
                          status |-> "DISCOVERED",
                          latitude |-> telemetryData.latitude,
                          longitude |-> telemetryData.longitude,
                          altitude |-> telemetryData.altitude,
                          batteryVoltage |-> telemetryData.batteryVoltage,
                          batteryPercent |-> Null, lastSeen |-> Some(now),
                          lastPolled |-> Null, deviceSecret |-> Null ])
                /\ slots' = [slots EXCEPT ![r] =
                        [@ EXCEPT !.pc = "telemetry_store", !.row = Some(Len(devices) + 1)]]
    /\ UNCHANGED <<now, commands, telemetry, returned, probe>>

telemetryCreateDevice(r) ==
    /\ slots[r].pc = "telemetry_create"
    /\ LET telemetryData == The(slots[r].req).body
           boardId == The(telemetryData.boardId)
       IN  IF DeviceByBoardId(devices, boardId) # {}
           THEN /\ slots' = [slots EXCEPT ![r] =
                        Answer(@, Response(500, "Internal server error"))]
                /\ UNCHANGED devices
           ELSE /\ devices' = Append(devices,
                        [ boardId |-> boardId, deviceType |-> "FIELD_UNIT",
                          networkId |-> devices[The(slots[r].pick)].networkId,
                          status |-> "DISCOVERED",
                          latitude |-> telemetryData.latitude,
                          longitude |-> telemetryData.longitude,
                          altitude |-> telemetryData.altitude,
                          batteryVoltage |-> telemetryData.batteryVoltage,
                          batteryPercent |-> Null, lastSeen |-> Some(now),
                          lastPolled |-> Null, deviceSecret |-> Null ])
                /\ slots' = [slots EXCEPT ![r] =
                        [@ EXCEPT !.pc = "telemetry_store", !.row = Some(Len(devices) + 1)]]
    /\ UNCHANGED <<now, commands, telemetry, returned, probe>>

\* updateData and prisma.device.update
\* (telemetryUpdateDevice_overwriteAll: the coordinates written whether present
\* or not.)
telemetryUpdateDevice_overwriteAll(r) ==
    /\ slots[r].pc = "telemetry_update"
    /\ LET telemetryData == The(slots[r].req).body
           present(f) == ~IsNull(telemetryData[f])
           batteryPercent == BatteryPercent(The(telemetryData.batteryVoltage))
       IN  devices' = [devices EXCEPT ![The(slots[r].row)] =
               [@ EXCEPT
                  !.lastSeen = Some(now),
                  !.status = IF present("batteryVoltage") /\ batteryPercent < LowBatteryPercent
                             THEN "LOW_BATTERY" ELSE "ONLINE",
                  !.latitude = telemetryData.latitude,
                  !.longitude = telemetryData.longitude,
                  !.altitude = telemetryData.altitude,
                  !.batteryVoltage = IF present("batteryVoltage")
                                     THEN telemetryData.batteryVoltage ELSE @,
                  !.batteryPercent = IF present("batteryVoltage")
                                     THEN Some(batteryPercent) ELSE @]]
    /\ slots' = [slots EXCEPT ![r].pc = "telemetry_store"]
    /\ UNCHANGED <<now, commands, telemetry, returned, probe>>

\* (telemetryUpdateDevice_adoptNetwork: the update also moves the device to
\* the network of the device that signed the report.)
telemetryUpdateDevice_adoptNetwork(r) ==
    /\ slots[r].pc = "telemetry_update"
    /\ LET telemetryData == The(slots[r].req).body
           present(f) == ~IsNull(telemetryData[f])
           batteryPercent == BatteryPercent(The(telemetryData.batteryVoltage))
       IN  devices' = [devices EXCEPT ![The(slots[r].row)] =
               [@ EXCEPT
                  !.lastSeen = Some(now),
                  !.networkId = devices[The(slots[r].device)].networkId,
                  !.status = IF present("batteryVoltage") /\ batteryPercent < LowBatteryPercent
                             THEN "LOW_BATTERY" ELSE "ONLINE",
                  !.latitude = IF present("latitude") THEN telemetryData.latitude ELSE @,
                  !.longitude = IF present("longitude") THEN telemetryData.longitude ELSE @,
                  !.altitude = IF present("altitude") THEN telemetryData.altitude ELSE @,
                  !.batteryVoltage = IF present("batteryVoltage")
                                     THEN telemetryData.batteryVoltage ELSE @,
                  !.batteryPercent = IF present("batteryVoltage")
                                     THEN Some(batteryPercent) ELSE @]]
    /\ slots' = [slots EXCEPT ![r].pc = "telemetry_store"]
    /\ UNCHANGED <<now, commands, telemetry, returned, probe>>

\* (telemetryUpdateDevice_lowAtThreshold: the low-battery rule applied at the
\* threshold itself.)
telemetryUpdateDevice_lowAtThreshold(r) ==
    /\ slots[r].pc = "telemetry_update"
    /\ LET telemetryData == The(slots[r].req).body
           present(f) == ~IsNull(telemetryData[f])
           batteryPercent == BatteryPercent(The(telemetryData.batteryVoltage))
       IN  devices' = [devices EXCEPT ![The(slots[r].row)] =
               [@ EXCEPT
                  !.lastSeen = Some(now),
                  !.status = IF present("batteryVoltage") /\ batteryPercent <= LowBatteryPercent
                             THEN "LOW_BATTERY" ELSE "ONLINE",
                  !.latitude = IF present("latitude") THEN telemetryData.latitude ELSE @,
                  !.longitude = IF present("longitude") THEN telemetryData.longitude ELSE @,
                  !.altitude = IF present("altitude") THEN telemetryData.altitude ELSE @,
                  !.batteryVoltage = IF present("batteryVoltage")
                                     THEN telemetryData.batteryVoltage ELSE @,
                  !.batteryPercent = IF present("batteryVoltage")
                                     THEN Some(batteryPercent) ELSE @]]
    /\ slots' = [slots EXCEPT ![r].pc = "telemetry_store"]
    /\ UNCHANGED <<now, commands, telemetry, returned, probe>>

telemetryUpdateDevice(r) ==
    /\ slots[r].pc = "telemetry_update"
    /\ LET telemetryData == The(slots[r].req).body
           present(f) == ~IsNull(telemetryData[f])
           batteryPercent == BatteryPercent(The(telemetryData.batteryVoltage))
       IN  devices' = [devices EXCEPT ![The(slots[r].row)] =
               [@ EXCEPT
                  !.lastSeen = Some(now),
                  !.status = IF present("batteryVoltage") /\ batteryPercent < LowBatteryPercent
                             THEN "LOW_BATTERY" ELSE "ONLINE",
                  !.latitude = IF present("latitude") THEN telemetryData.latitude ELSE @,
                  !.longitude = IF present("longitude") THEN telemetryData.longitude ELSE @,
                  !.altitude = IF present("altitude") THEN telemetryData.altitude ELSE @,
                  !.batteryVoltage = IF present("batteryVoltage")
                                     THEN telemetryData.batteryVoltage ELSE @,
                  !.batteryPercent = IF present("batteryVoltage")
                                     THEN Some(batteryPercent) ELSE @]]
    /\ slots' = [slots EXCEPT ![r].pc = "telemetry_store"]
    /\ UNCHANGED <<now, commands, telemetry, returned, probe>>

\* prisma.telemetry.create and res.status(201).json({success, deviceId})
\* (telemetryStore_noRecord: the success response without the record.)
telemetryStore_noRecord(r) ==
    /\ slots[r].pc = "telemetry_store"
    /\ LET telemetryData == The(slots[r].req).body
           device == The(slots[r].row)
       IN  /\ telemetry' = telemetry
           /\ slots' = [slots EXCEPT ![r] =
                   Answer(@, [Response(201, "") EXCEPT !.deviceId = Some(device)])]
    /\ UNCHANGED <<now, devices, commands, returned, probe>>

\* (telemetryStore_skipDuplicate: a report whose record is already stored for
\* the device is answered without a second record.)
telemetryStore_skipDuplicate(r) ==
    /\ slots[r].pc = "telemetry_store"
    /\ LET telemetryData == The(slots[r].req).body
           device == The(slots[r].row)
           stored == \E i \in DOMAIN telemetry :
                        /\ telemetry[i].deviceId = device
                        /\ telemetry[i].messageType = The(telemetryData.messageType)
                        /\ telemetry[i].batteryVoltage = telemetryData.batteryVoltage
       IN  /\ telemetry' = IF stored THEN telemetry
                           ELSE Append(telemetry,
                   [ networkId |-> devices[device].networkId, deviceId |-> device,
                     messageType |-> The(telemetryData.messageType),
                     latitude |-> telemetryData.latitude,
                     longitude |-> telemetryData.longitude,
                     altitude |-> telemetryData.altitude,
                     batteryVoltage |-> telemetryData.batteryVoltage,
                     receivedAt |-> now ])
           /\ slots' = [slots EXCEPT ![r] =
                   Answer(@, [Response(201, "") EXCEPT !.deviceId = Some(device)])]
    /\ UNCHANGED <<now, devices, commands, returned, probe>>

telemetryStore(r) ==
    /\ slots[r].pc = "telemetry_store"
    /\ LET telemetryData == The(slots[r].req).body
           device == The(slots[r].row)
       IN  /\ telemetry' = Append(telemetry,
                   [ networkId |-> devices[device].networkId, deviceId |-> device,
                     messageType |-> The(telemetryData.messageType),
                     latitude |-> telemetryData.latitude,
                     longitude |-> telemetryData.longitude,
                     altitude |-> telemetryData.altitude,
                     batteryVoltage |-> telemetryData.batteryVoltage,
                     receivedAt |-> now ])
           /\ slots' = [slots EXCEPT ![r] =
                   Answer(@, [Response(201, "") EXCEPT !.deviceId = Some(device)])]
    /\ UNCHANGED <<now, devices, commands, returned, probe>>

(***************************************************************************)
(* createCommand: POST /api/commands, by an authenticated user. The        *)
(* handler is one action. createdAt (DEFAULT CURRENT_TIMESTAMP) is kept as *)
(* the ordinal of the insert: the rows' createdAt are distinct and follow  *)
(* the order of creation.                                                  *)
(***************************************************************************)
MaxCommands == 2

IgniteTypes == {"MSG_TYPE_IGNITE", "MSG_TYPE_SET_R"}

CreateRequest(user, targetDeviceId, messageType, priority) ==
    [ op |-> "createCommand", user |-> user, targetDeviceId |-> targetDeviceId,
      messageType |-> messageType, priority |-> priority ]

\* The 403 of the permission check, if any.
CreateDenied_guestIgnites(user, network, messageType) ==
    LET isOwner == NetworkOwner[network] = user
        guestAccess == { g \in NetworkGuests : g.networkId = network /\ g.userId = user }
    IN  ~isOwner /\ guestAccess = {} /\ UserRole[user] # "MEGA_ADMIN"

CreateDenied(user, network, messageType) ==
    LET isOwner == NetworkOwner[network] = user
        guestAccess == { g \in NetworkGuests : g.networkId = network /\ g.userId = user }
        isCommander == \E g \in guestAccess : g.permission = "COMMANDER"
    IN  IF messageType \in IgniteTypes
        THEN ~isOwner /\ ~isCommander /\ UserRole[user] # "MEGA_ADMIN"
        ELSE ~isOwner /\ guestAccess = {} /\ UserRole[user] # "MEGA_ADMIN"

\* The priority a command is stored with: priority || 'NORMAL', and CRITICAL
\* for the ignition types.
commandPriority_requested(messageType, priority) ==
    IF IsNull(priority) THEN "NORMAL" ELSE The(priority)

commandPriority(messageType, priority) ==
    IF messageType \in IgniteTypes THEN "CRITICAL"
    ELSE IF IsNull(priority) THEN "NORMAL"
    ELSE The(priority)

createCommand(r, user, targetDeviceId, messageType, priority) ==
    /\ slots[r].pc \in {"idle", "done"}
    /\ Len(commands) < MaxCommands
    /\ LET req == CreateRequest(user, targetDeviceId, messageType, priority)
           answer(res) == slots' = [slots EXCEPT ![r] = Answer([Idle EXCEPT !.req = Some(req)], res)]
           unchanged == UNCHANGED <<commands, returned>>
       IN  IF targetDeviceId \notin DOMAIN devices
           THEN answer(Response(404, "Target device not found")) /\ unchanged
           ELSE LET targetDevice == devices[targetDeviceId]
                    online == { i \in DOMAIN devices :
                                  /\ devices[i].networkId = targetDevice.networkId
                                  /\ devices[i].deviceType = "BASE_STATION"
                                  /\ devices[i].status = "ONLINE" }
                IN  IF CreateDenied(user, targetDevice.networkId, messageType)
                    THEN answer(Response(403, IF messageType \in IgniteTypes
                                              THEN "Insufficient permissions for IGNITE command"
                                              ELSE "Access denied")) /\ unchanged
                    ELSE IF online = {}
                    THEN answer(Response(400, "No online base station available in this network"))
                         /\ unchanged
                    ELSE \E baseStation \in online :
                            /\ commands' = Append(commands,
                                   [ networkId |-> targetDevice.networkId,
                                     sourceDeviceId |-> Some(baseStation),
                                     targetDeviceId |-> Some(targetDeviceId),
                                     messageType |-> messageType,
                                     priority |-> commandPriority(messageType, priority),
                                     status |-> "PENDING",
                                     createdBy |-> user,
                                     createdAt |-> Len(commands) + 1,
                                     dispatchedAt |-> Null,
                                     completedAt |-> Null,
                                     responseData |-> Null ])
                            /\ returned' = Append(returned, 0)
                            /\ answer([Response(201, "") EXCEPT
                                          !.commandId = Some(Len(commands) + 1),
                                          !.included = {baseStation, targetDeviceId}])
    /\ UNCHANGED <<now, devices, telemetry, probe>>

(***************************************************************************)
(* Time passes.                                                            *)
(***************************************************************************)
MaxTicks == 1
TickMs == 600 * 1000
NowStart == IsoInstants["2023-12-18T16:10:00.000Z"]

Tick ==
    /\ now + TickMs <= NowStart + MaxTicks * TickMs
    /\ now' = now + TickMs
    /\ UNCHANGED <<devices, commands, telemetry, slots, returned, probe>>

(***************************************************************************)
(* The initial store: two networks, a provisioned base station in each, a  *)
(* provisioned field unit and a registered field unit without a secret.    *)
(***************************************************************************)
BoardB1 == "000000BASE01"
BoardB2 == "000000BASE02"
BoardF1 == "00000FIELD01"
BoardF2 == "00000FIELD02"
BoardUnknown == "00000FIELD09"

BoardB3 == "000000BASE03"

SecretOf ==
    ( BoardB1 :> "secretB1" ) @@ ( BoardB2 :> "secretB2" ) @@ ( BoardF1 :> "secretF1" )
    @@ ( BoardB3 :> "secretB3" )

InitialDevices ==
    << RegisteredDevice(BoardB1, "BASE_STATION", "net1", Some(SecretOf[BoardB1])),
       RegisteredDevice(BoardB2, "BASE_STATION", "net2", Some(SecretOf[BoardB2])),
       RegisteredDevice(BoardF1, "FIELD_UNIT", "net1", Some(SecretOf[BoardF1])),
       RegisteredDevice(BoardF2, "FIELD_UNIT", "net1", Null) >>

\* The connections that can be open at once.
Connections == {"c1", "c2"}

NoProbe == [ fn |-> "none" ]

Init ==
    /\ now = NowStart
    /\ devices = InitialDevices
    /\ commands = << >>
    /\ telemetry = << >>
    /\ slots = [r \in Connections |-> Idle]
    /\ returned = << >>
    /\ probe = NoProbe

(***************************************************************************)
(* Requests as a device that holds its secret writes them: it signs        *)
(* boardId|timestamp|op for a poll and boardId|timestamp|op|body for a     *)
(* write, over the bytes of the body it sends (the firmware's canonical    *)
(* string; scripts/testSecurity.ts, tests 5 and 6).                        *)
(***************************************************************************)
DeviceSignature(signer, timestamp, op, payload) ==
    computeHMAC(SecretOf[signer], buildCanonicalMessage(signer, timestamp, op, payload))

DevicePoll(signer, timestamp) ==
    Request("poll", Some(timestamp), Some(DeviceSignature(signer, timestamp, "poll", Null)),
            Some(signer), EmptyBody, "compact")

DevicePost(op, signer, timestamp, body, style) ==
    Request(op, Some(timestamp),
            Some(DeviceSignature(signer, timestamp, op,
                                 Some(StringPayload(BodyText(body, style))))),
            Null, body, style)

AckBody(boardId, commandId, success, responseData) ==
    [EmptyBody EXCEPT !.boardId = boardId, !.commandId = Some(commandId),
                      !.success = Some(success), !.responseData = responseData]

TelemetryBody(boardId, messageType, latitude, batteryVoltage) ==
    [EmptyBody EXCEPT !.boardId = Some(boardId), !.messageType = Some(messageType),
                      !.latitude = latitude, !.batteryVoltage = batteryVoltage]

FreshTimestamp == "2023-12-18T16:10:00.000Z"

(***************************************************************************)
(* Spec: command dispatch. Users queue commands for the field unit of      *)
(* net1; its base station polls and acknowledges, on two connections at    *)
(* once, each store call of a handler being one step.                      *)
(***************************************************************************)
DispatchRequests ==
    { DevicePoll(BoardB1, FreshTimestamp) }
    \cup { DevicePost("ack", BoardB1, FreshTimestamp,
                      AckBody(Some(BoardB1), c, ok, Null), "compact") :
             c \in 1 .. MaxCommands, ok \in BOOLEAN }

DispatchPriorities == { Some("CRITICAL"), Null }

Arrive(requests) == \E r \in Connections, req \in requests : validateDeviceSignature(r, req)

PollSteps ==
    \E r \in Connections :
        \/ pollFindBaseStation(r)
        \/ pollUpdateDevice(r)
        \/ pollFindCommand(r)
        \/ pollMarkProcessing(r)

AckSteps ==
    \E r \in Connections :
        \/ ackFindCommand(r)
        \/ ackUpdateCommand(r)

TelemetrySteps ==
    \E r \in Connections :
        \/ telemetryFindDevice(r)
        \/ telemetryFindAnyBaseStation(r)
        \/ telemetryCreateDevice(r)
        \/ telemetryUpdateDevice(r)
        \/ telemetryStore(r)

Next ==
    \/ Arrive(DispatchRequests)
    \/ PollSteps
    \/ AckSteps
    \/ \E r \in Connections, priority \in DispatchPriorities :
           createCommand(r, "owner1", 3, "MSG_TYPE_PING", priority)

Spec == Init /\ [][Next]_vars

(***************************************************************************)
(* Command dispatch and lifecycle (under Spec).                            *)
(***************************************************************************)
\* The ranking the documentation gives: CRITICAL > HIGH > NORMAL > LOW.
DocumentedRank(priority) ==
    CASE priority = "CRITICAL" -> 4
      [] priority = "HIGH" -> 3
      [] priority = "NORMAL" -> 2
      [] priority = "LOW" -> 1

Terminal == {"COMPLETED", "FAILED", "TIMEOUT"}

\* C1 (single dispatch): no command is ever returned by two polls: of two
\* polls that find the same PENDING command, one returns it and the other does
\* not.
C1_SingleDispatch == \A c \in DOMAIN returned : returned[c] <= 1

\* C2 (dispatch ordering): the command a poll selects is, among the PENDING
\* commands eligible for the polling base station, of the highest priority
\* under CRITICAL > HIGH > NORMAL > LOW, and the earliest created among those.
C2_Selected(r) ==
    LET c == The(slots[r].pick)'
        eligible == PendingFor(commands, devices, The(slots[r].row))
    IN  /\ c \in eligible
        /\ \A d \in eligible :
              /\ DocumentedRank(commands[c].priority) >= DocumentedRank(commands[d].priority)
              /\ commands[c].priority = commands[d].priority
                    => commands[c].createdAt <= commands[d].createdAt

C2_DispatchOrdering ==
    [][\A r \in Connections :
          (slots[r].pc = "poll_select" /\ slots'[r].pc = "poll_mark") => C2_Selected(r)]_vars

\* C3 (acknowledgment finality): once a command is COMPLETED, FAILED or TIMEOUT
\* no step of a poll or an acknowledge changes its status.
C3_AckFinality ==
    [][\A c \in DOMAIN commands :
          commands[c].status \in Terminal => commands'[c].status = commands[c].status]_vars

\* C4 (lifecycle order): a command's status changes only PENDING -> PROCESSING
\* and PROCESSING -> COMPLETED or FAILED, so that a COMPLETED or FAILED command
\* has a dispatchedAt.
C4_LifecycleOrder ==
    [][\A c \in DOMAIN commands :
          /\ \/ commands'[c].status = commands[c].status
             \/ commands[c].status = "PENDING" /\ commands'[c].status = "PROCESSING"
             \/ /\ commands[c].status = "PROCESSING"
                /\ commands'[c].status \in {"COMPLETED", "FAILED"}
          /\ commands'[c].status \in {"COMPLETED", "FAILED"}
                => ~IsNull(commands'[c].dispatchedAt)]_vars

(***************************************************************************)
(* SpecTs: isTimestampValid as a function. A call draws its argument (a JS *)
(* number of Unix seconds, NaN, or a string) and the server time; the      *)
(* action runs the call and records what it returns.                       *)
(***************************************************************************)
\* Seconds since Epoch0: around 300 s and 60 s away from NowStart, and far off.
TimestampNumbers == {0, 299, 300, 301, 540, 600, 659, 660, 661, 900}

\* Strings that are no date: new Date(s).getTime() is NaN.
NonDateStrings == {"invalid", "", "1702915800"}

TimestampInputs ==
    { JSNumber(n) : n \in TimestampNumbers } \cup { JSNaN }
    \cup { JSString(s) : s \in DOMAIN IsoInstants \cup NonDateStrings }

NowValues == {NowStart - 1, NowStart, NowStart + 1}

TsCall(timestamp) ==
    [ fn |-> "isTimestampValid", timestamp |-> timestamp, called |-> FALSE,
      result |-> FALSE ]

InitTs ==
    /\ now \in NowValues
    /\ devices = InitialDevices
    /\ commands = << >>
    /\ telemetry = << >>
    /\ slots = [r \in Connections |-> Idle]
    /\ returned = << >>
    /\ probe \in { TsCall(t) : t \in TimestampInputs }

CallIsTimestampValid ==
    /\ probe.fn = "isTimestampValid"
    /\ ~probe.called
    /\ probe' = [probe EXCEPT
           !.called = TRUE,
           !.result = isTimestampValid(probe.timestamp, DefaultMaxAgeSeconds, now)]
    /\ UNCHANGED <<now, devices, commands, telemetry, slots, returned>>

NextTs == CallIsTimestampValid

SpecTs == InitTs /\ [][NextTs]_vars

\* The instant a timestamp denotes, if it denotes one: Unix seconds for a
\* number, the date-time for an ISO 8601 string.
DenotedInstant(timestamp) ==
    IF timestamp.type = "number"
    THEN (IF timestamp.nan THEN Null ELSE Some(timestamp.n * 1000))
    ELSE (IF timestamp.s \in DOMAIN IsoInstants THEN Some(IsoInstants[timestamp.s])
          ELSE Null)

\* -60 s <= age <= 300 s, the age in milliseconds.
InWindow(instant, nowMs) ==
    /\ nowMs - instant >= -60000
    /\ nowMs - instant <= 300000

\* C10 (timestamp window): a call of isTimestampValid returns a boolean, and
\* returns true iff its argument denotes an instant whose age at the server
\* time is at least -60 s and at most 300 s, both bounds included; a value
\* that denotes no instant (a non-date string, NaN) gives false.
C10_TimestampWindow ==
    (probe.fn = "isTimestampValid" /\ probe.called) =>
        /\ probe.result \in BOOLEAN
        /\ probe.result <=>
              /\ ~IsNull(DenotedInstant(probe.timestamp))
              /\ InWindow(The(DenotedInstant(probe.timestamp)), now)

\* A timestamp exactly 300 s old was accepted.
C10_Witness ==
    /\ probe.fn = "isTimestampValid" /\ probe.called /\ probe.result
    /\ ~IsNull(DenotedInstant(probe.timestamp))
    /\ now - The(DenotedInstant(probe.timestamp)) = 300000

(***************************************************************************)
(* SpecGate: the gate and the handlers behind it, one request at a time on *)
(* one connection, while time passes. The requests are the ones the        *)
(* firmware and the test scripts send, well-formed and not.                *)
(***************************************************************************)
StaleTimestamp == "2023-12-18T16:03:20.000Z"
FutureTimestamp == "2023-12-18T16:20:00.000Z"

\* The firmware's header: String(now()), Unix seconds in decimal digits; this
\* one is the second of FreshTimestamp.
UnixTimestamp == "1702915800"

\* A write that names the sender in the query string; the sender signs the
\* compact text of the body.
DevicePostQuery(op, signer, timestamp, body) ==
    [DevicePost(op, signer, timestamp, body, "compact") EXCEPT !.query = Some(signer)]

\* Polls of the base station and of a field unit, by the clock and by Unix time.
HonestPolls ==
    { DevicePoll(BoardB1, t) : t \in {FreshTimestamp, StaleTimestamp, FutureTimestamp} }
    \cup { DevicePoll(BoardF1, FreshTimestamp) }

UnixPolls == { DevicePoll(BoardB1, UnixTimestamp) }

\* Polls the gate has to refuse: a header missing, a signature that is no
\* digest, a digest under another device's secret, no boardId, a board that is
\* not registered, a board without a secret.
RefusedPolls ==
    LET good == DevicePoll(BoardB1, FreshTimestamp)
    IN  { [good EXCEPT !.timestamp = Null],
          [good EXCEPT !.signature = Null],
          [good EXCEPT !.signature = Some("not-hex")],
          [good EXCEPT !.signature =
              Some(computeHMAC(SecretOf[BoardF1],
                               buildCanonicalMessage(BoardB1, FreshTimestamp, "poll", Null)))],
          [good EXCEPT !.query = Null],
          [good EXCEPT !.query = Some(BoardUnknown)],
          [good EXCEPT !.query = Some(BoardF2)] }

SelfTelemetryBody == TelemetryBody(BoardF1, "MSG_TYPE_POSA", Some(40713), Some(372))

\* A provisioned field unit reports itself; the text of the body as three
\* writers format it.
SelfTelemetry ==
    { DevicePost("telemetry", BoardF1, FreshTimestamp, SelfTelemetryBody, style) :
        style \in {"compact", "spaced", "padded"} }

\* forwardTelemetry of the base station firmware: the body names the subject,
\* the base station signs its own boardId; no query string.
RelayedTelemetry ==
    { DevicePost("telemetry", BoardB1, FreshTimestamp,
                 TelemetryBody(subject, "MSG_TYPE_BATT", Null, Some(318)), "compact") :
        subject \in {BoardF1, BoardF2, BoardUnknown} }

\* The same with the base station named in the query string.
RelayedTelemetryByQuery ==
    { DevicePostQuery("telemetry", BoardB1, FreshTimestamp,
                      TelemetryBody(subject, "MSG_TYPE_BATT", Null, Some(318))) :
        subject \in {BoardUnknown} }

\* acknowledgeCommand of the firmware: the body is {commandId, success}.
FirmwareAcks ==
    { DevicePost("ack", BoardB1, FreshTimestamp, AckBody(Null, 1, ok, Null), "compact") :
        ok \in BOOLEAN }

\* Acknowledges that name the base station in the body.
NamedAcks ==
    { DevicePost("ack", BoardB1, FreshTimestamp,
                 AckBody(Some(BoardB1), c, TRUE, Some("{\"rssi\":-70}")), "compact") :
        c \in 1 .. MaxCommands }

\* Polls whose signature header is the digest followed by more characters.
TrailingSignaturePolls ==
    { [DevicePoll(BoardB1, FreshTimestamp) EXCEPT !.signature = Some(The(@) \o tail)] :
        tail \in {"0"} }

\* Requests that fail more than one check of the gate.
MultiFailureRequests ==
    LET good == DevicePoll(BoardB1, StaleTimestamp)
    IN  { [good EXCEPT !.signature = Null],
          [good EXCEPT !.query = Null],
          [DevicePoll(BoardB1, FreshTimestamp) EXCEPT
              !.query = Null, !.signature = Some("not-hex")] }

GateRequests ==
    MultiFailureRequests \cup HonestPolls \cup UnixPolls \cup RefusedPolls \cup SelfTelemetry \cup RelayedTelemetry
    \cup RelayedTelemetryByQuery \cup FirmwareAcks \cup NamedAcks
    \cup TrailingSignaturePolls

MaxTelemetry == 1

MaxGateCommands == 1

GateConnections == {"c1"}

ArriveGate ==
    \E r \in GateConnections, req \in GateRequests :
        /\ req.op = "telemetry" => Len(telemetry) < MaxTelemetry
        /\ validateDeviceSignature(r, req)

NextGate ==
    \/ ArriveGate
    \/ PollSteps
    \/ AckSteps
    \/ TelemetrySteps
    \/ \E r \in GateConnections :
           /\ Len(commands) < MaxGateCommands
           /\ createCommand(r, "owner1", 3, "MSG_TYPE_PING", Null)
    \/ Tick

SpecGate == Init /\ [][NextGate]_vars

(***************************************************************************)
(* The gate (under SpecGate).                                              *)
(***************************************************************************)
GatewayOps == {"poll", "telemetry", "ack"}

\* In this step a gateway request arrives on connection r and the gate decides.
GatewayArrival(r) ==
    /\ slots[r].pc \in {"idle", "done"}
    /\ slots'[r] # slots[r]
    /\ ~IsNull(slots'[r].req)
    /\ The(slots'[r].req).op \in GatewayOps

\* In this step the request on connection r gets its response.
Answered(r) ==
    /\ slots'[r] # slots[r]
    /\ slots'[r].pc = "done"
    /\ ~IsNull(slots'[r].req)

\* The boardId a request claims: the query parameter, else the body's field.
ClaimedBoardId(req) == IF Truthy(req.query) THEN req.query ELSE req.body.boardId

\* boardId|timestamp|operation, and |body for a write (the body as the server
\* serialises the JSON value it received).
SignedMessage(req) ==
    The(ClaimedBoardId(req)) \o "|" \o The(req.timestamp) \o "|" \o req.op
    \o (IF req.op = "poll" THEN "" ELSE "|" \o JSONStringify(req.body))

\* The timestamp of a request is an ISO date-time inside the window at nowMs.
FreshAt(req, nowMs) ==
    /\ Truthy(req.timestamp)
    /\ The(req.timestamp) \in DOMAIN IsoInstants
    /\ InWindow(IsoInstants[The(req.timestamp)], nowMs)

\* C5 (gate soundness): a gateway request reaches its handler only if it has
\* both headers, its timestamp is inside the window, a device with the claimed
\* boardId exists and has a non-empty secret, and the signature is the digest
\* of boardId|timestamp|operation[|body] under that secret; a request the gate
\* rejects is answered in the same step with devices, commands and telemetry
\* unchanged.
C5_GateSoundness ==
    [][\A r \in Connections :
          GatewayArrival(r) =>
              LET req == The(slots'[r].req)
              IN  /\ slots'[r].pc \in {req.op, "done"}
                  /\ slots'[r].pc = req.op =>
                        /\ Truthy(req.timestamp) /\ Truthy(req.signature)
                        /\ FreshAt(req, now)
                        /\ Truthy(ClaimedBoardId(req))
                        /\ \E d \in DOMAIN devices :
                              /\ devices[d].boardId = The(ClaimedBoardId(req))
                              /\ Truthy(devices[d].deviceSecret)
                              /\ The(req.signature) =
                                    computeHMAC(The(devices[d].deviceSecret), SignedMessage(req))
                              /\ slots'[r].device = Some(d)
                  /\ slots'[r].pc = "done" =>
                        /\ The(slots'[r].res).status \in {400, 401, 403, 404}
                        /\ devices' = devices /\ commands' = commands
                        /\ telemetry' = telemetry]_vars

\* C6 (relayed telemetry is admitted): a telemetry request a provisioned base
\* station signs over its own boardId, whose body names another board and which
\* has no boardId in the query, is answered 201 with the subject device present
\* and one telemetry record appended for it.
C6_RelayedTelemetryIngested ==
    [][\A r \in Connections :
          ( /\ Answered(r)
            /\ The(slots'[r].req) \in RelayedTelemetry
            /\ slots[r].pc \in {"idle", "done"} => FreshAt(The(slots'[r].req), now) )
          => LET subject == The(The(slots'[r].req).body.boardId)
             IN  /\ The(slots'[r].res).status = 201
                 /\ Len(telemetry') = Len(telemetry) + 1
                 /\ \E d \in DeviceByBoardId(devices', subject) :
                       telemetry'[Len(telemetry')].deviceId = d]_vars

\* C7 (acknowledge request shape): an acknowledge whose body holds only
\* commandId and success, signed by a provisioned base station over its own
\* boardId, the timestamp, 'ack' and the body, for a command that exists, is
\* answered 200 and the command becomes COMPLETED or FAILED by its success flag.
C7_FirmwareAckAccepted ==
    [][\A r \in Connections :
          ( /\ Answered(r)
            /\ The(slots'[r].req) \in FirmwareAcks
            /\ The(The(slots'[r].req).body.commandId) \in DOMAIN commands
            /\ slots[r].pc \in {"idle", "done"} => FreshAt(The(slots'[r].req), now) )
          => LET body == The(slots'[r].req).body
             IN  /\ The(slots'[r].res).status = 200
                 /\ commands'[The(body.commandId)].status =
                       IF The(body.success) THEN "COMPLETED" ELSE "FAILED"]_vars

\* The instant a header of Unix seconds denotes.
UnixInstants == ( UnixTimestamp :> IsoInstants[FreshTimestamp] )

\* C8 (Unix-seconds timestamps): a request whose timestamp header holds Unix
\* seconds is refused for its timestamp iff the age of that second is outside
\* -60 s .. 300 s, as for the ISO 8601 form of the same instant.
C8_UnixSecondsAccepted ==
    [][\A r \in Connections :
          ( /\ GatewayArrival(r)
            /\ The(slots'[r].req).timestamp \in { Some(t) : t \in DOMAIN UnixInstants } )
          => LET req == The(slots'[r].req)
                 refused == /\ slots'[r].pc = "done"
                            /\ The(slots'[r].res).error = "Invalid timestamp"
             IN  refused <=> ~InWindow(UnixInstants[The(req.timestamp)], now)]_vars

\* C9 (exact body bytes are signed): a write whose signature is the digest of
\* boardId|timestamp|operation|b, b the bytes of its body as sent, is admitted
\* whatever the formatting of b.
C9_ExactBodyBytesSigned ==
    [][\A r \in Connections :
          ( /\ GatewayArrival(r)
            /\ The(slots'[r].req) \in SelfTelemetry
            /\ FreshAt(The(slots'[r].req), now) )
          => slots'[r].pc = "telemetry"]_vars

(***************************************************************************)
(* SpecSig: verifyHMAC as a function. A call draws a secret, a message and *)
(* a supplied signature: the digest, the digest with characters after it,  *)
(* another digest, or a string that is no digest.                          *)
(***************************************************************************)
SigSecrets == { SecretOf[BoardB1], SecretOf[BoardF1] }

SigMessages ==
    { buildCanonicalMessage(BoardB1, FreshTimestamp, "poll", Null),
      buildCanonicalMessage(BoardB1, StaleTimestamp, "poll", Null),
      buildCanonicalMessage(BoardF1, FreshTimestamp, "telemetry",
                            Some(ObjectPayload(SelfTelemetryBody))) }

\* Characters a sender may leave after the 64 hex digits of the digest.
SignatureTails == {"", "0", "zz", "ab", "0z", "abcd"}

SuppliedSignatures(secret, message) ==
    { computeHMAC(secret, message) \o tail : tail \in SignatureTails }
    \cup { computeHMAC(other, message) : other \in SigSecrets }
    \cup { computeHMAC(secret, other) : other \in SigMessages }
    \cup MalformedSignatures \cup {""}

SigCall(secret, message, signature) ==
    [ fn |-> "verifyHMAC", secret |-> secret, message |-> message,
      signature |-> signature, called |-> FALSE, result |-> FALSE ]

InitSig ==
    /\ now = NowStart
    /\ devices = InitialDevices
    /\ commands = << >>
    /\ telemetry = << >>
    /\ slots = [r \in Connections |-> Idle]
    /\ returned = << >>
    /\ probe \in { SigCall(secret, message, signature) :
                     secret \in SigSecrets, message \in SigMessages,
                     signature \in UNION { SuppliedSignatures(k, m) :
                                             k \in SigSecrets, m \in SigMessages } }

CallVerifyHMAC ==
    /\ probe.fn = "verifyHMAC"
    /\ ~probe.called
    /\ probe' = [probe EXCEPT
           !.called = TRUE,
           !.result = verifyHMAC(probe.secret, probe.message, probe.signature)]
    /\ UNCHANGED <<now, devices, commands, telemetry, slots, returned>>

NextSig == CallVerifyHMAC

SpecSig == InitSig /\ [][NextSig]_vars

GateChecks(req, devs, nowMs) ==
    LET claimed == ClaimedBoardId(req)
        found == IF Truthy(claimed) THEN DeviceByBoardId(devs, The(claimed)) ELSE {}
        secret == IF found = {} THEN Null ELSE devs[The(found)].deviceSecret
    IN  << Truthy(req.timestamp) /\ Truthy(req.signature),
           Truthy(req.timestamp)
               /\ isTimestampValid(JSString(The(req.timestamp)), DefaultMaxAgeSeconds, nowMs),
           Truthy(claimed),
           found # {},
           Truthy(secret),
           /\ Truthy(secret) /\ Truthy(req.timestamp) /\ Truthy(req.signature)
           /\ verifyHMAC(The(secret), SignedMessage(req), The(req.signature)) >>

\* The rejection of each check: status and error.
GateRejections ==
    << <<401, "Authentication required">>, <<401, "Invalid timestamp">>,
       <<400, "Missing boardId">>, <<404, "Device not found">>,
       <<403, "Device not provisioned">>, <<401, "Invalid signature">> >>

\* The first check that fails, 0 if none does.
FirstFailing(checks) ==
    IF \A i \in DOMAIN checks : checks[i] THEN 0
    ELSE CHOOSE i \in DOMAIN checks :
             ~checks[i] /\ \A j \in DOMAIN checks : j < i => checks[j]

RegisterRequest(user, networkId, boardId, deviceType) ==
    [ op |-> "registerDevice", user |-> user, networkId |-> networkId,
      boardId |-> boardId, deviceType |-> deviceType ]

\* The request arrives; network.findUnique, the ownership check and
\* device.findUnique({where: {boardId}}).
registerFindExisting(r, user, networkId, boardId, deviceType) ==
    /\ slots[r].pc \in {"idle", "done"}
    /\ LET req == RegisterRequest(user, networkId, boardId, deviceType)
           slot == [Idle EXCEPT !.req = Some(req)]
       IN  slots' = [slots EXCEPT ![r] =
                IF Len(boardId) # BoardIdLength THEN Answer(slot, Response(400, "Invalid input"))
                ELSE IF networkId \notin Networks
                THEN Answer(slot, Response(404, "Network not found"))
                ELSE IF NetworkOwner[networkId] # user /\ UserRole[user] # "MEGA_ADMIN"
                THEN Answer(slot, Response(403, "Only the owner can register devices"))
                ELSE IF DeviceByBoardId(devices, boardId) # {}
                THEN Answer(slot, Response(409, "Device already registered"))
                ELSE [slot EXCEPT !.pc = "register_create"]]
    /\ UNCHANGED <<now, devices, commands, telemetry, returned, probe>>

\* prisma.device.create; the unique index on boardId makes it throw when a row
\* with this boardId exists by now: 500.
registerCreateDevice(r) ==
    /\ slots[r].pc = "register_create"
    /\ LET req == The(slots[r].req)
       IN  IF DeviceByBoardId(devices, req.boardId) # {}
           THEN /\ slots' = [slots EXCEPT ![r] =
                        Answer(@, Response(500, "Internal server error"))]
                /\ UNCHANGED devices
           ELSE /\ devices' = Append(devices,
                        RegisteredDevice(req.boardId, req.deviceType, req.networkId, Null))
                /\ slots' = [slots EXCEPT ![r] =
                        Answer(@, [Response(201, "") EXCEPT
                                      !.deviceId = Some(Len(devices) + 1)])]
    /\ UNCHANGED <<now, commands, telemetry, returned, probe>>

(***************************************************************************)
(* SpecDiscovery: telemetry and registrations on two connections at once.  *)
(* Base stations of both networks forward reports, naming themselves in    *)
(* the query string, about a board no one has registered and about a       *)
(* registered one; the owner of net1 registers the unknown board.          *)
(***************************************************************************)
DiscoveryReports ==
    { DevicePostQuery("telemetry", baseStation, FreshTimestamp,
                      TelemetryBody(BoardUnknown, "MSG_TYPE_BATT", Null, Some(318))) :
        baseStation \in {BoardB1, BoardB2} }

UpdateReports ==
    { DevicePostQuery("telemetry", BoardB1, FreshTimestamp,
                      TelemetryBody(BoardF2, "MSG_TYPE_BATT", Null, Some(318))) }

MaxReports == 2

TelemetryPcs ==
    {"telemetry", "telemetry_discover", "telemetry_create", "telemetry_update",
     "telemetry_store"}

\* The reports stored or on their way.
Reports == Len(telemetry) + Cardinality({ r \in Connections : slots[r].pc \in TelemetryPcs })

ArriveReport ==
    \E r \in Connections, req \in DiscoveryReports \cup UpdateReports :
        /\ Reports < MaxReports
        /\ validateDeviceSignature(r, req)

NextDiscovery ==
    \/ ArriveReport
    \/ TelemetrySteps
    \/ \E r \in Connections :
           registerFindExisting(r, "owner1", "net1", BoardUnknown, "FIELD_UNIT")
    \/ \E r \in Connections : registerCreateDevice(r)

SpecDiscovery == Init /\ [][NextDiscovery]_vars

\* C13 (board identifier uniqueness): no two device records have the same
\* boardId, whatever the interleaving of reports and registrations.
C13_BoardIdUnique ==
    \A i \in DOMAIN devices : \A j \in DOMAIN devices :
        devices[i].boardId = devices[j].boardId => i = j

\* Two requests were about to create the same board; one has created it and
\* the other has been refused by the unique index.
C13_Witness ==
    /\ DeviceByBoardId(devices, BoardUnknown) # {}
    /\ \E r \in Connections :
          /\ slots[r].pc = "done"
          /\ The(slots[r].res).status = 500

\* C14 (discovery conflict is benign): every report about the unknown board
\* that the gate admitted is answered 201 with its own telemetry record
\* appended for the board's device, also when the other connection holds a
\* report about the same board that created (discovered) the device in the
\* meantime.
C14_DiscoveryConflictBenign ==
    [][\A r \in Connections :
          ( /\ Answered(r)
            /\ \A q \in Connections : slots[q].req \subseteq DiscoveryReports
            /\ \A d \in DeviceByBoardId(devices, BoardUnknown) :
                  devices[d].status = "DISCOVERED"
            /\ The(slots'[r].req) \in DiscoveryReports )
          => /\ The(slots'[r].res).status = 201
             /\ Len(telemetry') = Len(telemetry) + 1
             /\ telemetry'[Len(telemetry')].deviceId
                    \in DeviceByBoardId(devices', BoardUnknown)]_vars

(***************************************************************************)
(* SpecScope: polls of three base stations, two of them in net1, on two    *)
(* connections, while the owners of both networks queue commands.          *)
(***************************************************************************)
ScopeDevices ==
    Append(InitialDevices,
           RegisteredDevice(BoardB3, "BASE_STATION", "net1", Some(SecretOf[BoardB3])))

InitScope ==
    /\ now = NowStart
    /\ devices = ScopeDevices
    /\ commands = << >>
    /\ telemetry = << >>
    /\ slots = [r \in Connections |-> Idle]
    /\ returned = << >>
    /\ probe = NoProbe

ScopePolls == { DevicePoll(b, FreshTimestamp) : b \in {BoardB1, BoardB2, BoardB3} }

\* Who queues a command, and for which device: the field unit of net1, the
\* base station of net2.
ScopeTargets == { <<"owner1", 3>>, <<"owner2", 2>> }

NextScope ==
    \/ Arrive(ScopePolls)
    \/ PollSteps
    \/ \E r \in Connections, t \in ScopeTargets :
           createCommand(r, t[1], t[2], "MSG_TYPE_PING", Null)

SpecScope == InitScope /\ [][NextScope]_vars

\* A command is in the scope of a base station: same network, and addressed
\* to it or to no one.
InScope(cmd, devs, baseStation) ==
    /\ cmd.networkId = devs[baseStation].networkId
    /\ cmd.sourceDeviceId \in {Some(baseStation), Null}

\* The device a poll names in its query string.
PollingDevice(req, devs) == The(DeviceByBoardId(devs, The(req.query)))

\* C15 (poll scope): the command a poll of base station B selects is PENDING
\* and in B's scope; the poll returns and modifies that command only; no other
\* step of a poll changes a command.
C15_PollScope ==
    [][\A r \in Connections :
          (~IsNull(slots[r].req) /\ The(slots[r].req).op = "poll"
             /\ slots[r].pc # "done" /\ slots'[r] # slots[r])
          => LET b == PollingDevice(The(slots[r].req), devices)
             IN  /\ slots'[r].pc = "poll_mark" =>
                       /\ commands[The(slots'[r].pick)].status = "PENDING"
                       /\ InScope(commands[The(slots'[r].pick)], devices, b)
                 /\ \A c \in DOMAIN commands :
                       (commands'[c] # commands[c] \/ returned'[c] # returned[c]
                          \/ slots'[r].res = Some([Response(200, "") EXCEPT
                                                      !.commandId = Some(c)]))
                       => /\ slots[r].pc = "poll_mark"
                          /\ slots[r].pick = Some(c)
                          /\ The(slots'[r].res).commandId = Some(c)
                          /\ InScope(commands[c], devices, b)]_vars

\* A poll has returned a command while a PENDING command of another network or
\* for another base station is queued.
C15_Witness ==
    \E r \in Connections :
        /\ slots[r].pc = "done"
        /\ The(slots[r].req).op = "poll"
        /\ ~IsNull(The(slots[r].res).commandId)
        /\ \E d \in DOMAIN commands :
              /\ commands[d].status = "PENDING"
              /\ ~InScope(commands[d], devices, PollingDevice(The(slots[r].req), devices))

\* The statuses of the error responses of the gateway.
ErrorStatuses == {400, 401, 403, 404, 500}

\* C16 (effect of a poll on commands): a poll that finds an eligible PENDING
\* command goes on to return one; when it answers, that command and no other
\* is changed, to PROCESSING with dispatchedAt set, and the response carries
\* it; a poll that finds none answers 204, which is no error status; no other
\* step of a poll changes a command.
C16_PollEffect ==
    [][\A r \in Connections :
          (~IsNull(slots[r].req) /\ The(slots[r].req).op = "poll"
             /\ slots[r].pc # "done" /\ slots'[r] # slots[r])
          => /\ slots[r].pc = "poll_select" =>
                   IF PendingFor(commands, devices, The(slots[r].row)) # {}
                   THEN /\ slots'[r].pc = "poll_mark"
                        /\ The(slots'[r].pick)
                              \in PendingFor(commands, devices, The(slots[r].row))
                   ELSE /\ slots'[r].pc = "done"
                        /\ The(slots'[r].res).status = 204
                        /\ The(slots'[r].res).status \notin ErrorStatuses
                        /\ IsNull(The(slots'[r].res).commandId)
             /\ slots[r].pc = "poll_mark" =>
                   LET c == The(slots[r].pick)
                   IN  /\ slots'[r].pc = "done"
                       /\ The(slots'[r].res).status = 200
                       /\ The(slots'[r].res).commandId = Some(c)
                       /\ commands'[c].status = "PROCESSING"
                       /\ ~IsNull(commands'[c].dispatchedAt)
                       /\ \A d \in DOMAIN commands : d # c => commands'[d] = commands[d]
             /\ slots[r].pc # "poll_mark" => commands' = commands]_vars

\* A poll has returned a command, now PROCESSING with its dispatchedAt, and
\* another command is still PENDING.
C16_Witness ==
    \E r \in Connections :
        /\ slots[r].pc = "done"
        /\ The(slots[r].req).op = "poll"
        /\ \E c \in The(slots[r].res).commandId :
              /\ commands[c].status = "PROCESSING"
              /\ ~IsNull(commands[c].dispatchedAt)
              /\ \E d \in DOMAIN commands : commands[d].status = "PENDING"

\* C17 (a poll refreshes the poller): a poll answers 200 or 204 only after
\* its update of the base station, that update sets the lastPolled and the
\* lastSeen of the base station the poll found to the current time and its
\* status to ONLINE and leaves every other device as it was, and no other
\* step of a poll changes a device.
C17_PollRefreshesPoller ==
    [][\A r \in Connections :
          (~IsNull(slots[r].req) /\ The(slots[r].req).op = "poll"
             /\ slots[r].pc # "done" /\ slots'[r] # slots[r])
          => /\ slots[r].pc = "poll_update" =>
                   \A b \in slots[r].row :
                      /\ b \in BaseStationByBoardId(devices, The(The(slots[r].req).query))
                      /\ DOMAIN devices' = DOMAIN devices
                      /\ devices'[b].lastPolled = Some(now)
                      /\ devices'[b].lastSeen = Some(now)
                      /\ devices'[b].status = "ONLINE"
                      /\ devices'[b] = [devices[b] EXCEPT !.lastPolled = Some(now),
                                                          !.lastSeen = Some(now),
                                                          !.status = "ONLINE"]
                      /\ \A d \in DOMAIN devices : d # b => devices'[d] = devices[d]
             /\ slots[r].pc # "poll_update" => devices' = devices
             /\ slots'[r].pc = "poll_select" => slots[r].pc = "poll_update"
             /\ (slots'[r].pc = "done" /\ The(slots'[r].res).status \in {200, 204})
                   => slots[r].pc \in {"poll_select", "poll_mark"}
             /\ slots'[r].pc = "poll_mark" => slots[r].pc = "poll_select"
             /\ (slots[r].pc = "poll" /\ PollQueryValid(The(slots[r].req))
                   /\ BaseStationByBoardId(devices, The(The(slots[r].req).query)) # {})
                   => slots'[r].pc = "poll_update"]_vars

\* A poll answered 204 at a later time than the start, and the poller carries
\* that time as lastPolled and lastSeen and is ONLINE.
C17_Witness ==
    \E r \in Connections :
        /\ slots[r].pc = "done"
        /\ The(slots[r].req).op = "poll"
        /\ The(slots[r].res).status = 204
        /\ now > NowStart
        /\ \E b \in slots[r].row :
              /\ devices[b].lastPolled = Some(now)
              /\ devices[b].lastSeen = Some(now)
              /\ devices[b].status = "ONLINE"

(***************************************************************************)
(* SpecBattery: the provisioned field unit reports its battery voltage,    *)
(* any of ReportedVoltages, one report after the other.                    *)
(***************************************************************************)
BatteryReports ==
    { DevicePost("telemetry", BoardF1, FreshTimestamp,
                 TelemetryBody(BoardF1, "MSG_TYPE_BATT", Null, Some(v)), "compact") :
        v \in ReportedVoltages }

MaxBatteryReports == 1

ArriveBatteryReport ==
    \E req \in BatteryReports :
        /\ Reports < MaxBatteryReports
        /\ validateDeviceSignature("c1", req)

NextBattery ==
    \/ ArriveBatteryReport
    \/ \E r \in Connections :
           \/ telemetryFindDevice(r)
           \/ telemetryUpdateDevice(r)
           \/ telemetryStore(r)

SpecBattery == Init /\ [][NextBattery]_vars

Abs(x) == IF x < 0 THEN -x ELSE x

\* p is the linear interpolation of v between MinVoltage (0) and MaxVoltage
\* (100), rounded to a nearest integer and clamped to 0..100.
InterpolatedPercent(v, p) ==
    /\ p \in 0 .. 100
    /\ v <= MinVoltage => p = 0
    /\ v >= MaxVoltage => p = 100
    /\ (MinVoltage < v /\ v < MaxVoltage)
          => 2 * Abs(p * (MaxVoltage - MinVoltage) - (v - MinVoltage) * 100)
                <= MaxVoltage - MinVoltage

\* C18 (battery-derived status): the update of an existing device by a report
\* with a battery voltage stores that voltage and, as batteryPercent, its
\* linear interpolation between 3.0 V and 4.2 V rounded to an integer and
\* clamped to 0..100; the status stored is LOW_BATTERY iff that percentage is
\* below 20 and ONLINE otherwise; 3.18 V gives 15 % and LOW_BATTERY, 3.72 V
\* gives 60 % and ONLINE.
C18_BatteryStatus ==
    [][\A r \in Connections :
          (slots[r].pc = "telemetry_update" /\ slots'[r] # slots[r])
          => \A v \in The(slots[r].req).body.batteryVoltage :
             \A d \in slots[r].row :
                /\ devices'[d].batteryVoltage = Some(v)
                /\ \E p \in 0 .. 100 :
                      /\ devices'[d].batteryPercent = Some(p)
                      /\ InterpolatedPercent(v, p)
                      /\ devices'[d].status = IF p < 20 THEN "LOW_BATTERY" ELSE "ONLINE"
                /\ v = 318 => /\ devices'[d].batteryPercent = Some(15)
                              /\ devices'[d].status = "LOW_BATTERY"
                /\ v = 372 => /\ devices'[d].batteryPercent = Some(60)
                              /\ devices'[d].status = "ONLINE"]_vars

\* The field unit has reported 3.18 V and is stored with 15 % and LOW_BATTERY.
C18_Witness ==
    \E r \in Connections :
        /\ slots[r].pc = "done"
        /\ ~IsNull(slots[r].req)
        /\ The(slots[r].req).op = "telemetry"
        /\ The(slots[r].req).body.batteryVoltage = Some(318)
        /\ The(slots[r].res).status = 201
        /\ \E d \in slots[r].row :
              /\ devices[d].batteryPercent = Some(15)
              /\ devices[d].status = "LOW_BATTERY"

(***************************************************************************)
(* SpecPartial: the provisioned field unit reports any subset of its       *)
(* coordinates and battery voltage, with one of two sets of values, zero   *)
(* coordinates among them, one report after the other.                     *)
(***************************************************************************)
OptionalFields == {"latitude", "longitude", "altitude", "batteryVoltage"}

FieldValues ==
    { [ latitude |-> 40713, longitude |-> -74006, altitude |-> 245500,
        batteryVoltage |-> 372 ],
      [ latitude |-> 0, longitude |-> 0, altitude |-> 0, batteryVoltage |-> 318 ] }

PartialBody(fields, values) ==
    [k \in DOMAIN EmptyBody |->
        IF k = "boardId" THEN Some(BoardF1)
        ELSE IF k = "messageType" THEN Some("MSG_TYPE_POSA")
        ELSE IF k \in fields THEN Some(values[k])
        ELSE Null]

PartialReports ==
    { DevicePost("telemetry", BoardF1, FreshTimestamp, PartialBody(fields, values),
                 "compact") :
        fields \in SUBSET OptionalFields, values \in FieldValues }

MaxPartialReports == 2

ArrivePartialReport ==
    \E r \in GateConnections, req \in PartialReports :
        /\ Reports < MaxPartialReports
        /\ validateDeviceSignature(r, req)

NextPartial ==
    \/ ArrivePartialReport
    \/ \E r \in Connections :
           \/ telemetryFindDevice(r)
           \/ telemetryUpdateDevice(r)
           \/ telemetryStore(r)

SpecPartial == Init /\ [][NextPartial]_vars

\* C19 (partial update): the update of an existing device by a report writes
\* latitude, longitude, altitude and batteryVoltage with batteryPercent from
\* the fields the report has and keeps the stored value of every one it has
\* not; lastSeen becomes the current time and status is written anew; nothing
\* else of the device, and no other device, changes.
C19_PartialUpdate ==
    [][\A r \in Connections :
          (slots[r].pc = "telemetry_update" /\ slots'[r] # slots[r])
          => \A body \in {The(slots[r].req).body} :
             \A d \in slots[r].row :
                /\ \A f \in OptionalFields :
                      devices'[d][f] = IF IsNull(body[f]) THEN devices[d][f] ELSE body[f]
                /\ IF IsNull(body.batteryVoltage)
                   THEN devices'[d].batteryPercent = devices[d].batteryPercent
                   ELSE ~IsNull(devices'[d].batteryPercent)
                /\ devices'[d].lastSeen = Some(now)
                /\ devices'[d].status \in {"ONLINE", "LOW_BATTERY"}
                /\ \A f \in DOMAIN devices[d] \ (OptionalFields \cup
                                                 {"batteryPercent", "lastSeen", "status"}) :
                      devices'[d][f] = devices[d][f]
                /\ DOMAIN devices' = DOMAIN devices
                /\ \A e \in DOMAIN devices : e # d => devices'[e] = devices[e]]_vars

\* A report without latitude and without battery voltage has been stored, and
\* the device still has the latitude, the voltage and the percentage of an
\* earlier report, with the longitude of this one.
C19_Witness ==
    \E r \in Connections :
        /\ slots[r].pc = "done"
        /\ ~IsNull(slots[r].req)
        /\ The(slots[r].req).op = "telemetry"
        /\ The(slots[r].res).status = 201
        /\ LET body == The(slots[r].req).body
           IN  /\ IsNull(body.latitude)
               /\ IsNull(body.batteryVoltage)
               /\ body.longitude = Some(0)
               /\ \E d \in slots[r].row :
                     /\ devices[d].latitude = Some(40713)
                     /\ devices[d].batteryVoltage = Some(372)
                     /\ devices[d].batteryPercent = Some(60)
                     /\ devices[d].longitude = Some(0)
                     /\ devices[d].lastSeen = Some(now)
                     /\ Len(telemetry) = 2

\* C20 (auto-discovery network): a device created from a telemetry report is a
\* FIELD_UNIT with status DISCOVERED in the network of the base station whose
\* signature admitted the report.
C20_DiscoveredInRelayNetwork ==
    [][\A r \in Connections :
          (slots[r].pc = "telemetry_create" /\ slots'[r].pc = "telemetry_store")
          => \A d \in slots'[r].row :
             \A relay \in slots[r].device :
                /\ devices'[d].boardId = The(The(slots[r].req).body.boardId)
                /\ devices'[d].deviceType = "FIELD_UNIT"
                /\ devices'[d].status = "DISCOVERED"
                /\ devices[relay].deviceType = "BASE_STATION"
                /\ devices'[d].networkId = devices[relay].networkId]_vars

\* s is t with records appended, none of t changed or removed.
IsPrefix(t, s) == Len(t) <= Len(s) /\ SubSeq(s, 1, Len(t)) = t

\* C21 (telemetry is append-only, one record per accepted report): a step
\* keeps every telemetry record there is; it appends a record exactly when it
\* answers a telemetry request with 201, and then exactly one, for the device
\* with the boardId of the report and that device's network; a report gets to
\* its record only through the creation of that one device or the update of
\* that one device.
C21_TelemetryAppendOnly ==
    [][/\ IsPrefix(telemetry, telemetry')
       /\ Len(telemetry') - Len(telemetry)
             = Cardinality({ r \in Connections :
                                /\ Answered(r)
                                /\ The(slots'[r].req).op = "telemetry"
                                /\ The(slots'[r].res).status = 201 })
       /\ Len(telemetry') <= Len(telemetry) + 1
       /\ \A r \in Connections :
             /\ (Answered(r) /\ The(slots'[r].req).op = "telemetry"
                   /\ The(slots'[r].res).status = 201)
                  => \A record \in {telemetry'[Len(telemetry')]} :
                     \A d \in slots[r].row :
                        /\ slots[r].pc = "telemetry_store"
                        /\ record.deviceId = d
                        /\ devices[d].boardId = The(The(slots[r].req).body.boardId)
                        /\ record.networkId = devices[d].networkId
                        /\ The(slots'[r].res).deviceId = Some(d)
                        /\ devices' = devices
             /\ (slots'[r].pc = "telemetry_store" /\ slots[r].pc # "telemetry_store")
                  => \A d \in slots'[r].row :
                        \/ /\ slots[r].pc = "telemetry_create"
                           /\ devices' = Append(devices, devices'[d])
                           /\ d = Len(devices')
                        \/ /\ slots[r].pc = "telemetry_update"
                           /\ DOMAIN devices' = DOMAIN devices
                           /\ slots[r].row = Some(d)
                           /\ \A e \in DOMAIN devices : e # d => devices'[e] = devices[e]]_vars

\* Two reports have been answered 201, one that created its device and one
\* that updated it, and there are two records, both of that device.
C21_Witness ==
    /\ Len(telemetry) = 2
    /\ \A r \in Connections :
          /\ slots[r].pc = "done"
          /\ ~IsNull(slots[r].req)
          /\ The(slots[r].req).op = "telemetry"
          /\ The(slots[r].res).status = 201
    /\ \E d \in DeviceByBoardId(devices, BoardUnknown) :
          /\ telemetry[1].deviceId = d
          /\ telemetry[2].deviceId = d

(***************************************************************************)
(* SpecFailure: store calls that fail. A prisma call that rejects (the     *)
(* database is unreachable, a statement times out) throws inside the       *)
(* handler's try block and the catch block answers 500; the handlers use   *)
(* no transaction, so what the request wrote before stays written. One     *)
(* request is made, on one connection, against the initial store.          *)
(***************************************************************************)
\* prisma.command.findFirst rejects: catch, res.status(500)
pollFindCommandThrows(r) ==
    /\ slots[r].pc = "poll_select"
    /\ slots' = [slots EXCEPT ![r] = Answer(@, Response(500, "Internal server error"))]
    /\ UNCHANGED <<now, devices, commands, telemetry, returned, probe>>

\* prisma.telemetry.create rejects: catch, res.status(500)
telemetryStoreThrows(r) ==
    /\ slots[r].pc = "telemetry_store"
    /\ slots' = [slots EXCEPT ![r] = Answer(@, Response(500, "Internal server error"))]
    /\ UNCHANGED <<now, devices, commands, telemetry, returned, probe>>

FailureRequests ==
    PartialReports \cup DiscoveryReports
    \cup { DevicePoll(b, FreshTimestamp) : b \in {BoardB1, BoardB2} }

ArriveOnce ==
    \E r \in GateConnections, req \in FailureRequests :
        /\ slots[r].pc = "idle"
        /\ validateDeviceSignature(r, req)

NextFailure ==
    \/ ArriveOnce
    \/ \E r \in GateConnections :
           \/ pollFindBaseStation(r)
           \/ pollUpdateDevice(r)
           \/ pollFindCommand(r)
           \/ pollFindCommandThrows(r)
    \/ TelemetrySteps
    \/ \E r \in GateConnections : telemetryStoreThrows(r)

SpecFailure == Init /\ [][NextFailure]_vars

\* C22 (no partial writes): a poll or a telemetry request that ends in 500
\* because a store call failed has left the store as it was before the
\* request: no device created, none changed, no record.
C22_NoPartialWrites ==
    \A r \in Connections :
        ( /\ slots[r].pc = "done"
          /\ ~IsNull(slots[r].req)
          /\ The(slots[r].req).op \in {"poll", "telemetry"}
          /\ The(slots[r].res).status = 500 )
        => /\ devices = InitialDevices
           /\ telemetry = << >>
           /\ commands = << >>

(***************************************************************************)
(* SpecAck: the base station of net1 polls and acknowledges, one request   *)
(* after the other, commands the owner queues; the acknowledges name known *)
(* and unknown commands and carry an object, an empty object, a number or  *)
(* no responseData.                                                        *)
(***************************************************************************)
AckPayloads == { Null, Some("{\"rssi\":-70}"), Some("{}"), Some("0") }

AckRequests ==
    { DevicePost("ack", BoardB1, FreshTimestamp,
                 AckBody(Some(BoardB1), c, ok, payload), "compact") :
        c \in 1 .. (MaxCommands + 1), ok \in BOOLEAN, payload \in AckPayloads }

ArriveAck ==
    \E r \in GateConnections, req \in AckRequests \cup { DevicePoll(BoardB1, FreshTimestamp) } :
        validateDeviceSignature(r, req)

NextAck ==
    \/ ArriveAck
    \/ PollSteps
    \/ AckSteps
    \/ \E r \in GateConnections : createCommand(r, "owner1", 3, "MSG_TYPE_PING", Null)

SpecAck == Init /\ [][NextAck]_vars

\* This step is the first or the second store call of an acknowledge on r.
AckStep(r) ==
    /\ slots[r].pc \in {"ack", "ack_update"}
    /\ slots'[r] # slots[r]

\* C23 (effect of acknowledge): an acknowledge naming an unknown commandId is
\* answered 404 and changes no command; one naming a known command sets its
\* status to COMPLETED if success is true and to FAILED if it is false, sets
\* completedAt, stores the responseData supplied as it was supplied, and
\* changes nothing else of that command and no other command.
C23_AckEffect ==
    [][\A r \in Connections :
          AckStep(r)
          => \A body \in {The(slots[r].req).body} :
             \A c \in body.commandId :
                /\ (slots[r].pc = "ack" /\ c \notin DOMAIN commands)
                      => /\ The(slots'[r].res).status = 404
                         /\ commands' = commands
                /\ (slots[r].pc = "ack" /\ c \in DOMAIN commands)
                      => /\ slots'[r].pc = "ack_update"
                         /\ commands' = commands
                /\ slots[r].pc = "ack_update"
                      => /\ The(slots'[r].res).status = 200
                         /\ commands'[c].status
                               = IF The(body.success) THEN "COMPLETED" ELSE "FAILED"
                         /\ commands'[c].completedAt = Some(now)
                         /\ \A payload \in body.responseData :
                               commands'[c].responseData = Some(payload)
                         /\ \A f \in DOMAIN commands[c] \ {"status", "completedAt",
                                                           "responseData"} :
                               commands'[c][f] = commands[c][f]
                         /\ DOMAIN commands' = DOMAIN commands
                         /\ \A d \in DOMAIN commands : d # c => commands'[d] = commands[d]
    ]_vars

(***************************************************************************)
(* SpecCanon: buildCanonicalMessage called once with a boardId, a          *)
(* timestamp given as a number or as a string, a method and a payload that *)
(* is absent, a string (empty, or the text of a body) or an object; and    *)
(* the canonical string the firmware builds from the same inputs.          *)
(***************************************************************************)
CanonBoards == { BoardB1, BoardF1 }

\* A timestamp argument: a number (Unix seconds) or a string.
NumberArg(n) == [kind |-> "number", n |-> n, s |-> ""]
StringArg(s) == [kind |-> "string", n |-> 0, s |-> s]

CanonTimestamps ==
    { NumberArg(1702915234), NumberArg(0), StringArg("1702915234"),
      StringArg(FreshTimestamp) }

\* String(timestamp)
TimestampString(t) == IF t.kind = "number" THEN ToString(t.n) ELSE t.s

CanonMethods == {"poll", "telemetry", "ack"}

CanonBodies ==
    { TelemetryBody(BoardF1, "MSG_TYPE_GPS", Some(40713), Some(372)),
      AckBody(Null, 1, TRUE, Null) }

CanonPayloads ==
    { Null, Some(StringPayload("")) }
    \cup { Some(StringPayload(JSONStringify(body))) : body \in CanonBodies }
    \cup { Some(ObjectPayload(body)) : body \in CanonBodies }

\* signRequest of the firmware: String(BOARD_ID) + "|" + String(timestamp) +
\* "|" + method, and + "|" + payload if payload.length() > 0.
FirmwareCanonical(boardId, timestamp, method, payload) ==
    boardId \o "|" \o ToString(timestamp) \o "|" \o method
    \o (IF Len(payload) > 0 THEN "|" \o payload ELSE "")

CanonCall(boardId, timestamp, method, payload) ==
    [ fn |-> "buildCanonicalMessage", boardId |-> boardId, timestamp |-> timestamp,
      method |-> method, payload |-> payload, called |-> FALSE, result |-> "",
      again |-> "" ]

InitCanon ==
    /\ now = NowStart
    /\ devices = InitialDevices
    /\ commands = << >>
    /\ telemetry = << >>
    /\ slots = [r \in Connections |-> Idle]
    /\ returned = << >>
    /\ probe \in { CanonCall(boardId, timestamp, method, payload) :
                     boardId \in CanonBoards, timestamp \in CanonTimestamps,
                     method \in CanonMethods, payload \in CanonPayloads }

\* The function is called twice with the same arguments, by the device that
\* signs and by the server that verifies.
CallBuildCanonicalMessage ==
    /\ probe.fn = "buildCanonicalMessage"
    /\ ~probe.called
    /\ probe' = [probe EXCEPT
           !.called = TRUE,
           !.result = buildCanonicalMessage(probe.boardId, TimestampString(probe.timestamp),
                                            probe.method, probe.payload),
           !.again = buildCanonicalMessage(probe.boardId, TimestampString(probe.timestamp),
                                           probe.method, probe.payload)]
    /\ UNCHANGED <<now, devices, commands, telemetry, slots, returned>>

NextCanon == CallBuildCanonicalMessage

SpecCanon == InitCanon /\ [][NextCanon]_vars

\* The number of characters c in s.
CountChar(s, c) == Cardinality({ i \in 1 .. Len(s) : CharAt(s, i) = c })

\* The text a payload stands for: a string as it is, an object serialised.
PayloadString(p) == IF p.kind = "string" THEN p.s ELSE JSONStringify(p.obj)

\* C24 (canonical message format): the result is boardId|timestamp|method
\* without a payload and boardId|timestamp|method|payload with one, a string
\* payload as it is and an object as its JSON text; without a payload the
\* result has two separators and does not end in one; the call changes
\* nothing but its result, a second call with the same arguments returns the
\* same string, the firmware's string for the same inputs is that string, and
\* so are the two signatures under one secret.
C24_CanonicalFormat ==
    [][CallBuildCanonicalMessage
       => \A call \in {probe} : \A result \in {probe'.result} :
          \A ts \in {TimestampString(call.timestamp)} :
             /\ IsNull(call.payload)
                   => /\ result = call.boardId \o "|" \o ts \o "|" \o call.method
                      /\ CountChar(result, "|") = 2
                      /\ CharAt(result, Len(result)) # "|"
             /\ \A p \in call.payload :
                   /\ result = call.boardId \o "|" \o ts \o "|" \o call.method
                                  \o "|" \o PayloadString(p)
                   /\ SubSeq(result, Len(result) - Len(PayloadString(p)) + 1, Len(result))
                         = PayloadString(p)
                   /\ p.kind = "string" => CountChar(result, "|") = 3
             /\ probe'.again = result
             /\ (call.timestamp.kind = "number"
                   /\ call.payload # Some(StringPayload(""))
                   /\ \A p \in call.payload : p.kind = "string")
                  => \A json \in {IF IsNull(call.payload) THEN ""
                                  ELSE The(call.payload).s} :
                     \A canonical \in {FirmwareCanonical(call.boardId, call.timestamp.n,
                                                         call.method, json)} :
                        /\ canonical = result
                        /\ \A secret \in SigSecrets :
                              computeHMAC(secret, canonical) = computeHMAC(secret, result)
             /\ UNCHANGED <<now, devices, commands, telemetry, slots, returned>>
             /\ probe' = [call EXCEPT !.called = TRUE, !.result = result, !.again = result]
    ]_vars

\* The function has been called for a poll without payload and a numeric
\* timestamp, and returned the string of test 4 for that board.
C24_Witness ==
    /\ probe.fn = "buildCanonicalMessage"
    /\ probe.called
    /\ IsNull(probe.payload)
    /\ probe.timestamp = NumberArg(1702915234)
    /\ probe.method = "poll"
    /\ probe.result = probe.boardId \o "|1702915234|poll"

(***************************************************************************)
(* SpecTamper: requests signed by the base station of net1, and what an    *)
(* attacker makes of them: the signature of one request on another one,    *)
(* that differs from it in the operation, the timestamp, the board or the  *)
(* body, or on the same body written with other bytes.                     *)
(***************************************************************************)
OtherFreshTimestamp == "2023-12-18T16:10:00.001Z"

RelayedBody(batteryVoltage) ==
    TelemetryBody(BoardF2, "MSG_TYPE_BATT", Null, Some(batteryVoltage))

TamperOriginals ==
    { DevicePoll(BoardB1, FreshTimestamp),
      DevicePostQuery("telemetry", BoardB1, FreshTimestamp, RelayedBody(318)),
      DevicePost("ack", BoardB1, FreshTimestamp, AckBody(Some(BoardB1), 1, TRUE, Null),
                 "compact") }

TamperVariants ==
    TamperOriginals
    \cup { DevicePoll(BoardB1, OtherFreshTimestamp), DevicePoll(BoardB2, FreshTimestamp),
           DevicePostQuery("telemetry", BoardB1, FreshTimestamp, RelayedBody(372)),
           DevicePostQuery("telemetry", BoardB1, OtherFreshTimestamp, RelayedBody(318)) }
    \cup { [DevicePostQuery("telemetry", BoardB1, FreshTimestamp, RelayedBody(318))
               EXCEPT !.style = style] : style \in {"spaced", "padded"} }

\* A request sent with the signature header of another one.
TamperRequests ==
    { [v EXCEPT !.signature = h.signature] : v \in TamperVariants, h \in TamperOriginals }

MaxTamperReports == 1

ArriveTamper ==
    \E r \in GateConnections, req \in TamperRequests :
        /\ req.op = "telemetry" => Len(telemetry) < MaxTamperReports
        /\ validateDeviceSignature(r, req)

NextTamper ==
    \/ ArriveTamper
    \/ \E r \in GateConnections :
           \/ pollFindBaseStation(r)
           \/ pollUpdateDevice(r)
           \/ pollFindCommand(r)
           \/ ackFindCommand(r)
           \/ telemetryFindDevice(r)
           \/ telemetryUpdateDevice(r)
           \/ telemetryStore(r)

SpecTamper == Init /\ [][NextTamper]_vars

\* The bytes of the body of a request as it was sent.
BodyBytes(req) == IF req.op = "poll" THEN "" ELSE BodyText(req.body, req.style)

\* C25 (tamper detection): the gate admits a request under the signature of a
\* signed request only if it is that request: the same board, the same
\* timestamp string, the same operation and the same body, byte for byte.
C25_TamperDetected ==
    [][\A r \in Connections :
          (GatewayArrival(r) /\ slots'[r].pc # "done")
          => \A req \in slots'[r].req :
             \A h \in TamperOriginals :
                h.signature = req.signature
                => /\ ClaimedBoardId(req) = ClaimedBoardId(h)
                   /\ req.timestamp = h.timestamp
                   /\ req.op = h.op
                   /\ BodyBytes(req) = BodyBytes(h)]_vars

(***************************************************************************)
(* SpecIdem: acknowledges that are repeated. Each command has one          *)
(* acknowledge, success for the odd commands and failure for the even, and *)
(* the base station sends it any number of times, on two connections,      *)
(* between its polls.                                                      *)
(***************************************************************************)
RepeatedAck(c) ==
    DevicePost("ack", BoardB1, FreshTimestamp,
               AckBody(Some(BoardB1), c, c % 2 = 1,
                       IF c % 2 = 1 THEN Some("{\"rssi\":-70}") ELSE Null),
               "compact")

IdemRequests ==
    { RepeatedAck(c) : c \in 1 .. MaxCommands } \cup { DevicePoll(BoardB1, FreshTimestamp) }

NextIdem ==
    \/ Arrive(IdemRequests)
    \/ PollSteps
    \/ AckSteps
    \/ \E r \in Connections : createCommand(r, "owner1", 3, "MSG_TYPE_PING", Null)

SpecIdem == Init /\ [][NextIdem]_vars

\* C26 (idempotent acknowledgment): the update of an acknowledge that is a
\* repetition, its command carrying the completedAt and the final status of
\* the earlier one, leaves the status and the stored responseData of the
\* command as they are.
C26_AckIdempotent ==
    [][\A r \in Connections :
          (slots[r].pc = "ack_update" /\ slots'[r] # slots[r])
          => \A c \in slots[r].row :
                (~IsNull(commands[c].completedAt) /\ commands[c].status \in Terminal)
                => /\ commands'[c].status = commands[c].status
                   /\ commands'[c].responseData = commands[c].responseData]_vars

\* The same acknowledge has been answered 200 on both connections, and the
\* command is COMPLETED with the payload of the acknowledge.
C26_Witness ==
    /\ \A r \in Connections :
          /\ slots[r].pc = "done"
          /\ slots[r].req = Some(RepeatedAck(1))
          /\ The(slots[r].res).status = 200
    /\ commands[1].status = "COMPLETED"
    /\ commands[1].responseData = Some("{\"rssi\":-70}")

(***************************************************************************)
(* SpecLive: the base station of net1 keeps polling, on two connections,   *)
(* and every poll is admitted and runs to its answer; the owner queues a   *)
(* bounded number of commands. Weak fairness on the arrival of polls (the  *)
(* polling loop of the firmware) and on the steps of the handler (the      *)
(* event loop resumes every await whose store call has returned).          *)
(***************************************************************************)
LivePolls == { DevicePoll(BoardB1, FreshTimestamp) }

NextLive ==
    \/ Arrive(LivePolls)
    \/ PollSteps
    \/ \E r \in Connections, priority \in DispatchPriorities :
           createCommand(r, "owner1", 3, "MSG_TYPE_PING", priority)

SpecLive ==
    /\ Init
    /\ [][NextLive]_vars
    /\ WF_vars(Arrive(LivePolls))
    /\ WF_vars(PollSteps)

\* The base station of net1.
LiveBaseStation == CHOOSE b \in DOMAIN InitialDevices : InitialDevices[b].boardId = BoardB1

ListRequest(user, networkId) == [ op |-> "getDevices", user |-> user, networkId |-> networkId ]

\* getDevices: GET /api/networks/:networkId/devices, by an authenticated user;
\* prisma.device.findMany({where: {networkId}}) and res.json(devices).
getDevices(r, user, networkId) ==
    /\ slots[r].pc \in {"idle", "done"}
    /\ LET req == ListRequest(user, networkId)
           hasAccess ==
               \/ UserRole[user] = "MEGA_ADMIN"
               \/ NetworkOwner[networkId] = user
               \/ \E g \in NetworkGuests : g.networkId = networkId /\ g.userId = user
           found == { d \in DOMAIN devices : devices[d].networkId = networkId }
       IN  slots' = [slots EXCEPT ![r] =
               Answer([Idle EXCEPT !.req = Some(req)],
                      IF networkId \notin DOMAIN NetworkOwner
                      THEN Response(404, "Network not found")
                      ELSE IF ~hasAccess THEN Response(403, "Access denied")
                      ELSE [Response(200, "") EXCEPT !.included = found])]
    /\ UNCHANGED <<now, devices, commands, telemetry, returned, probe>>

ListUsers == {"owner1", "viewer", "stranger"}
ListNetworks == {"net1", "net2", "net0"}
SecretCommanders == {"owner1", "commander", "viewer"}

NextSecret ==
    \/ Arrive(LivePolls)
    \/ PollSteps
    \/ \E r \in Connections, user \in ListUsers, networkId \in ListNetworks :
           getDevices(r, user, networkId)
    \/ \E r \in Connections, user \in SecretCommanders :
           createCommand(r, user, 3, "MSG_TYPE_PING", Null)

SpecSecret == Init /\ [][NextSecret]_vars

\* The device secrets a response body carries: the deviceSecret column of the
\* rows written in full.
SecretsIn(res, devs) == UNION { devs[d].deviceSecret : d \in res.included }

\* C28 (device secrets are never transmitted): no response carries the
\* deviceSecret of a device.
C28_NoSecretInResponse ==
    \A r \in Connections :
        \A res \in slots[r].res : SecretsIn(res, devices) = {}

(***************************************************************************)
(* SpecCommand: users queue commands. The base stations poll first (a      *)
(* command needs an ONLINE base station in the network of its target),     *)
(* then users of every role ask for commands of ignition and other types,  *)
(* with and without a priority.                                            *)
(***************************************************************************)
CommandPolls == { DevicePoll(BoardB1, FreshTimestamp), DevicePoll(BoardB2, FreshTimestamp) }

CommandUsers == {"owner1", "owner2", "commander", "viewer", "admin", "stranger"}

\* A field unit of net1 and the base station of net2.
CommandTargets == {3, 2}

CommandTypes == {"MSG_TYPE_IGNITE", "MSG_TYPE_SET_R", "MSG_TYPE_PING"}

CommandPriorities == { Null, Some("LOW") }

ArriveCommandPoll ==
    /\ commands = << >>
    /\ \E r \in GateConnections, req \in CommandPolls : validateDeviceSignature(r, req)

NextCommand ==
    \/ ArriveCommandPoll
    \/ \E r \in GateConnections :
           \/ pollFindBaseStation(r)
           \/ pollUpdateDevice(r)
           \/ pollFindCommand(r)
    \/ \E r \in GateConnections, user \in CommandUsers, targetDeviceId \in CommandTargets,
          messageType \in CommandTypes, priority \in CommandPriorities :
           createCommand(r, user, targetDeviceId, messageType, priority)

SpecCommand == Init /\ [][NextCommand]_vars

\* A createCommand request has been answered on connection r in this step.
CreateStep(r) ==
    /\ slots'[r] # slots[r]
    /\ slots'[r].pc = "done"
    /\ slots'[r].req # Null
    /\ The(slots'[r].req).op = "createCommand"

\* The requester may ignite in the network: its owner, a guest of it with the
\* COMMANDER permission, or a MEGA_ADMIN.
MayIgnite(user, network) ==
    \/ NetworkOwner[network] = user
    \/ \E g \in NetworkGuests :
           g.networkId = network /\ g.userId = user /\ g.permission = "COMMANDER"
    \/ UserRole[user] = "MEGA_ADMIN"

\* C29 (ignition permission): a request for a command of type MSG_TYPE_IGNITE
\* or MSG_TYPE_SET_R on an existing target creates a command only when the
\* requester is the owner of the target's network, a COMMANDER guest of it or a
\* MEGA_ADMIN; for every other requester it is answered 403 and the commands
\* stay as they were.
C29_IgnitionPermission ==
    [][ \A r \in GateConnections :
          CreateStep(r) =>
            \A req \in slots'[r].req : \A res \in slots'[r].res :
              (req.messageType \in IgniteTypes /\ req.targetDeviceId \in DOMAIN devices) =>
                LET network == devices[req.targetDeviceId].networkId
                IN  /\ commands' # commands => MayIgnite(req.user, network)
                    /\ ~MayIgnite(req.user, network) =>
                          res.status = 403 /\ commands' = commands
      ]_vars

\* A commander's ignition is queued and a viewer's ignition has been refused.
C29_Witness ==
    /\ \E c \in DOMAIN commands :
          commands[c].messageType = "MSG_TYPE_IGNITE" /\ commands[c].createdBy = "commander"
    /\ \E r \in GateConnections :
          /\ slots[r].pc = "done"
          /\ \E req \in slots[r].req : \E res \in slots[r].res :
                /\ req.op = "createCommand"
                /\ req.user = "viewer"
                /\ req.messageType \in IgniteTypes
                /\ res.status = 403

\* C30 (ignition priority): the command a request creates is stored CRITICAL
\* when its type is MSG_TYPE_IGNITE or MSG_TYPE_SET_R, whatever the request
\* asked for, and otherwise with the requested priority, NORMAL when the
\* request gave none; the stored priority of a command does not change.
C30_IgnitionPriority ==
    [][ /\ \A c \in DOMAIN commands :
              c \in DOMAIN commands' /\ commands'[c].priority = commands[c].priority
        /\ \A r \in GateConnections :
              (CreateStep(r) /\ commands' # commands) =>
                \A req \in slots'[r].req :
                  LET created == commands'[Len(commands')]
                  IN  /\ Len(commands') = Len(commands) + 1
                      /\ created.messageType = req.messageType
                      /\ req.messageType \in IgniteTypes => created.priority = "CRITICAL"
                      /\ (req.messageType \notin IgniteTypes /\ req.priority # Null) =>
                            created.priority = The(req.priority)
                      /\ (req.messageType \notin IgniteTypes /\ req.priority = Null) =>
                            created.priority = "NORMAL"
      ]_vars

\* A ping asked LOW is stored LOW and an ignition asked LOW is stored CRITICAL.
C30_Witness ==
    /\ Len(commands) = 2
    /\ commands[1].messageType = "MSG_TYPE_PING" /\ commands[1].priority = "LOW"
    /\ commands[2].messageType = "MSG_TYPE_IGNITE" /\ commands[2].priority = "CRITICAL"
    /\ \E r \in GateConnections :
          \E req \in slots[r].req : \E res \in slots[r].res :
             /\ req.op = "createCommand"
             /\ req.messageType = "MSG_TYPE_IGNITE"
             /\ req.priority = Some("LOW")
             /\ res.status = 201

(***************************************************************************)
(* SpecTimeout: commands in flight while the gateway goes on. The base     *)
(* station of net1 polls, relays a report and acknowledges, on two         *)
(* connections; the owner queues commands; time passes.                    *)
(***************************************************************************)
TimeoutRequests ==
    { DevicePoll(BoardB1, FreshTimestamp) }
    \cup UpdateReports
    \cup { DevicePost("ack", BoardB1, FreshTimestamp,
                      AckBody(Some(BoardB1), 1, TRUE, Null), "compact") }

ArriveTimeout ==
    \E r \in Connections, req \in TimeoutRequests :
        /\ req.op = "telemetry" => Reports < MaxTelemetry
        /\ validateDeviceSignature(r, req)

NextTimeout ==
    \/ ArriveTimeout
    \/ PollSteps
    \/ AckSteps
    \/ \E r \in Connections :
           \/ telemetryFindDevice(r)
           \/ telemetryUpdateDevice(r)
           \/ telemetryStore(r)
    \/ \E r \in GateConnections : createCommand(r, "owner1", 3, "MSG_TYPE_PING", Null)
    \/ Tick

SpecTimeout == Init /\ [][NextTimeout]_vars

\* The step is the update of an acknowledge for command c.
AckHandled(c) ==
    \E r \in Connections :
        /\ slots[r].pc = "ack_update"
        /\ slots[r].row = Some(c)
        /\ slots'[r].pc = "done"

\* C31 (no automatic timeout): no step of a poll, a telemetry report or an
\* acknowledge, and no passing of time, sets a command's status to TIMEOUT, and
\* a command in PROCESSING keeps that status in every step that is not the
\* update of an acknowledge for it.
C31_NoAutomaticTimeout ==
    [][ \A c \in DOMAIN commands :
          /\ commands'[c].status = "TIMEOUT" => commands[c].status = "TIMEOUT"
          /\ (commands[c].status = "PROCESSING" /\ ~AckHandled(c))
                => commands'[c].status = "PROCESSING"
      ]_vars

\* A command is still PROCESSING after a later poll found nothing, a report
\* was stored and ten minutes passed.
C31_Witness ==
    /\ now > NowStart
    /\ Len(telemetry) > 0
    /\ \E c \in DOMAIN commands :
          /\ commands[c].status = "PROCESSING"
          /\ \E d \in DOMAIN devices :
                /\ commands[c].sourceDeviceId = Some(d)
                /\ devices[d].lastPolled # Null
                /\ commands[c].dispatchedAt # Null
    /\ \E r \in Connections :
          /\ slots[r].pc = "done"
          /\ \E req \in slots[r].req : \E res \in slots[r].res :
                req.op = "poll" /\ res.status = 204

\* C32 (battery percentage follows every reported voltage): a device whose
\* batteryVoltage was set by a telemetry report, the report that discovered it
\* included, has the batteryPercent computed from that voltage.
C32_PercentFollowsVoltage ==
    \A d \in DOMAIN devices :
        \A batteryVoltage \in devices[d].batteryVoltage :
            devices[d].batteryPercent = Some(BatteryPercent(batteryVoltage))

(***************************************************************************)
(* SpecRelay: auto-discovery with and without a base station in the store. *)
(* The store starts as InitialDevices or with the two field units alone    *)
(* (registerDevice asks for no base station); the provisioned field unit   *)
(* signs reports about boards the store does not know.                     *)
(***************************************************************************)
NoRelayDevices ==
    << RegisteredDevice(BoardF1, "FIELD_UNIT", "net1", Some(SecretOf[BoardF1])),
       RegisteredDevice(BoardF2, "FIELD_UNIT", "net1", Null) >>

InitRelay ==
    /\ now = NowStart
    /\ devices \in {InitialDevices, NoRelayDevices}
    /\ commands = << >>
    /\ telemetry = << >>
    /\ slots = [r \in Connections |-> Idle]
    /\ returned = << >>
    /\ probe = NoProbe

RelayReports ==
    { DevicePostQuery("telemetry", BoardF1, FreshTimestamp,
                      TelemetryBody(subject, "MSG_TYPE_BATT", Null, batteryVoltage)) :
        subject \in {BoardUnknown, BoardB3}, batteryVoltage \in {Null, Some(318)} }

ArriveRelayReport ==
    \E r \in Connections, req \in RelayReports :
        /\ Reports < MaxReports
        /\ validateDeviceSignature(r, req)

NextRelay ==
    \/ ArriveRelayReport
    \/ \E r \in Connections :
           \/ telemetryFindDevice(r)
           \/ telemetryFindAnyBaseStation(r)
           \/ telemetryCreateDevice(r)
           \/ telemetryStore(r)

SpecRelay == InitRelay /\ [][NextRelay]_vars

BaseStations(devs) == { i \in DOMAIN devs : devs[i].deviceType = "BASE_STATION" }

\* C33 (auto-discovery needs a relay): the device a report for an unknown
\* boardId creates is put in the network of a BASE_STATION device of the store;
\* while the store holds no BASE_STATION device, such a report is answered 400
\* and no device and no telemetry record is created.
C33_DiscoveryNeedsRelay ==
    [][ /\ \A r \in Connections :
              (slots[r].pc = "telemetry_create" /\ slots'[r] # slots[r]
                 /\ devices' # devices) =>
                  /\ Len(devices') = Len(devices) + 1
                  /\ devices'[Len(devices')].boardId = The(The(slots[r].req).body.boardId)
                  /\ \E b \in BaseStations(devices) :
                        devices'[Len(devices')].networkId = devices[b].networkId
        /\ BaseStations(devices) = {} =>
              /\ devices' = devices
              /\ telemetry' = telemetry
              /\ \A r \in Connections :
                    (slots[r].pc = "telemetry_discover" /\ slots'[r] # slots[r]) =>
                        /\ slots'[r].pc = "done"
                        /\ \A res \in slots'[r].res : res.status = 400
      ]_vars

\* Without a base station a report for an unknown board has been answered 400.
C33_Witness ==
    /\ BaseStations(devices) = {}
    /\ devices = NoRelayDevices
    /\ telemetry = << >>
    /\ \E r \in Connections :
          /\ slots[r].pc = "done"
          /\ \E req \in slots[r].req : \E res \in slots[r].res :
                /\ req.op = "telemetry"
                /\ DeviceByBoardId(devices, The(req.body.boardId)) = {}
                /\ res.status = 400
                /\ res.error = "No base station available for auto-discovery"

(***************************************************************************)
(* SpecIdentity: the whole gateway at work. Both base stations poll, relay *)
(* reports about a known and an unknown field unit and acknowledge, on two *)
(* connections, while the owner of net1 queues commands.                   *)
(***************************************************************************)
IdentityRequests ==
    { DevicePoll(b, FreshTimestamp) : b \in {BoardB1, BoardB2} }
    \cup { DevicePostQuery("telemetry", BoardB2, FreshTimestamp,
                           TelemetryBody(subject, "MSG_TYPE_BATT", Null, Some(318))) :
             subject \in {BoardF2, BoardUnknown} }
    \cup { DevicePost("ack", BoardB1, FreshTimestamp,
                      AckBody(Some(BoardB1), 1, TRUE, Null), "compact") }

ArriveIdentity ==
    \E r \in Connections, req \in IdentityRequests :
        /\ req.op = "telemetry" => Reports < MaxTelemetry
        /\ validateDeviceSignature(r, req)

NextIdentity ==
    \/ ArriveIdentity
    \/ PollSteps
    \/ AckSteps
    \/ TelemetrySteps
    \/ \E r \in GateConnections : createCommand(r, "owner1", 3, "MSG_TYPE_PING", Null)

SpecIdentity == Init /\ [][NextIdentity]_vars

\* The columns that identify a device.
Identity(device) ==
    [ boardId |-> device.boardId, deviceType |-> device.deviceType,
      networkId |-> device.networkId, deviceSecret |-> device.deviceSecret ]

\* C34 (device identity is stable under gateway traffic): no step of a poll,
\* a telemetry report or an acknowledge removes a device or changes the
\* boardId, deviceType, networkId or deviceSecret of an existing device.
C34_IdentityStable ==
    [][ /\ Len(devices') >= Len(devices)
        /\ \A d \in DOMAIN devices : Identity(devices'[d]) = Identity(devices[d])
      ]_vars

\* A base station has polled and had a command acknowledged, a report of the
\* other network's base station has updated a field unit of net1, and the
\* devices are who they were.
C34_Witness ==
    /\ \E b \in DOMAIN devices : devices[b].lastPolled # Null
    /\ \E c \in DOMAIN commands : commands[c].status = "COMPLETED"
    /\ \E d \in DeviceByBoardId(devices, BoardF2) :
          /\ devices[d].batteryVoltage = Some(318)
          /\ devices[d].networkId = "net1"
    /\ \A d \in DOMAIN InitialDevices : Identity(devices[d]) = Identity(InitialDevices[d])

(***************************************************************************)
(* SpecIsolation: acknowledges from everywhere. The owner of net1 queues   *)
(* commands, its base station polls, and the base station of net1, the     *)
(* base station of net2 and the field unit each acknowledge command 1.     *)
(***************************************************************************)
IsolationRequests ==
    { DevicePoll(BoardB1, FreshTimestamp) }
    \cup { DevicePost("ack", signer, FreshTimestamp,
                      AckBody(Some(signer), 1, TRUE, Null), "compact") :
             signer \in {BoardB1, BoardB2, BoardF1} }

NextIsolation ==
    \/ Arrive(IsolationRequests)
    \/ PollSteps
    \/ AckSteps
    \/ \E r \in GateConnections : createCommand(r, "owner1", 3, "MSG_TYPE_PING", Null)

SpecIsolation == Init /\ [][NextIsolation]_vars

\* C35 (acknowledge isolation): the command an acknowledge changes belongs to
\* the network of the device the gate admitted the request for, names that
\* device as its source, and has been returned to it by a poll and is
\* PROCESSING.
C35_AckIsolation ==
    [][ \A r \in Connections :
          (slots[r].pc = "ack_update" /\ slots'[r].pc = "done") =>
              \A c \in slots[r].row : \A d \in slots[r].device :
                  commands'[c] # commands[c] =>
                      /\ commands[c].networkId = devices[d].networkId
                      /\ commands[c].sourceDeviceId = Some(d)
                      /\ commands[c].status = "PROCESSING"
                      /\ returned[c] > 0
      ]_vars

(***************************************************************************)
(* SpecBinding: polls that name a board in the query string, in a body, in *)
(* both or in neither, signed with the secret of one base station over the *)
(* boardId of one of them, while the owner of net1 queues commands.        *)
(***************************************************************************)
BindingBoards == {BoardB1, BoardB2}

BindingNames == { Null } \cup { Some(b) : b \in BindingBoards }

BindingPolls ==
    { Request("poll", Some(FreshTimestamp),
              Some(computeHMAC(SecretOf[signer],
                               buildCanonicalMessage(claimed, FreshTimestamp, "poll", Null))),
              query, [EmptyBody EXCEPT !.boardId = named], "compact") :
        signer \in BindingBoards, claimed \in BindingBoards,
        query \in BindingNames, named \in BindingNames }

NextBinding ==
    \/ \E r \in GateConnections, req \in BindingPolls : validateDeviceSignature(r, req)
    \/ \E r \in GateConnections :
           \/ pollFindBaseStation(r)
           \/ pollUpdateDevice(r)
           \/ pollFindCommand(r)
           \/ pollMarkProcessing(r)
    \/ \E r \in GateConnections : createCommand(r, "owner1", 3, "MSG_TYPE_PING", Null)

SpecBinding == Init /\ [][NextBinding]_vars

\* The device whose secret verifies the signature of the request: the header
\* is the HMAC, under that device's secret, of a canonical message for poll.
VerifiedUnder(req, devs) ==
    { d \in DOMAIN devs :
        \E boardId \in BindingBoards, secret \in devs[d].deviceSecret :
            The(req.signature) =
                computeHMAC(secret,
                            buildCanonicalMessage(boardId, The(req.timestamp), "poll", Null)) }

PollServingPcs == {"poll_update", "poll_select", "poll_mark"}

\* C36 (poll identity binding): the base station a poll holds, whose record
\* it updates and whose commands it selects and returns, is the device the gate
\* admitted the request for, and the signature of the request verifies under
\* the secret of that device.
C36_PollIdentityBinding ==
    [][ \A r \in GateConnections :
          /\ slots[r].pc \in PollServingPcs =>
                /\ slots[r].row = slots[r].device
                /\ The(slots[r].row) \in VerifiedUnder(The(slots[r].req), devices)
          /\ (slots[r].pc = "poll_update" /\ slots'[r].pc = "poll_select") =>
                \A d \in DOMAIN devices :
                    devices'[d] # devices[d] => Some(d) = slots[r].device
          /\ (slots[r].pc = "poll_select" /\ slots'[r].pc = "poll_mark") =>
                \A c \in slots'[r].pick :
                    c \in PendingFor(commands, devices, The(slots[r].device))
      ]_vars

\* A poll that names one base station in the query string and the other in
\* its body has been served, with a command, to the one of the query string.
C36_Witness ==
    \E r \in GateConnections :
        /\ slots[r].pc = "done"
        /\ \E req \in slots[r].req : \E res \in slots[r].res :
              /\ req.op = "poll"
              /\ req.query = Some(BoardB1)
              /\ req.body.boardId = Some(BoardB2)
              /\ res.status = 200
              /\ res.commandId # Null
              /\ slots[r].device = Some(LiveBaseStation)

(***************************************************************************)
(* SpecNetwork: two networks at work. The owners queue commands for a      *)
(* device of their network, both base stations poll on two connections,    *)
(* and the base station of net1 acknowledges.                              *)
(***************************************************************************)
NetworkRequests ==
    { DevicePoll(b, FreshTimestamp) : b \in {BoardB1, BoardB2} }
    \cup { DevicePost("ack", BoardB1, FreshTimestamp,
                      AckBody(Some(BoardB1), 1, TRUE, Null), "compact") }

NextNetwork ==
    \/ Arrive(NetworkRequests)
    \/ PollSteps
    \/ AckSteps
    \/ \E r \in GateConnections, t \in ScopeTargets :
           createCommand(r, t[1], t[2], "MSG_TYPE_PING", Null)

SpecNetwork == Init /\ [][NextNetwork]_vars

\* The ONLINE base stations of a network.
OnlineBaseStations(devs, network) ==
    { b \in DOMAIN devs :
        /\ devs[b].networkId = network
        /\ devs[b].deviceType = "BASE_STATION"
        /\ devs[b].status = "ONLINE" }

\* C37 (commands stay inside their target's network): a command is created
\* with the networkId of its target device and with a source that is an ONLINE
\* BASE_STATION of that network; a request that finds none is answered 400 and
\* creates nothing; and the base station a poll returns a command to is in the
\* network of the command's target device.
C37_CommandsStayInNetwork ==
    [][ /\ \A r \in Connections :
              CreateStep(r) =>
                  \A req \in slots'[r].req : \A res \in slots'[r].res :
                      /\ commands' # commands =>
                            LET created == commands'[Len(commands')]
                                network == devices[req.targetDeviceId].networkId
                            IN  /\ commands' = Append(commands, created)
                                /\ created.targetDeviceId = Some(req.targetDeviceId)
                                /\ created.networkId = network
                                /\ \E b \in OnlineBaseStations(devices, network) :
                                      created.sourceDeviceId = Some(b)
                      /\ (req.targetDeviceId \in DOMAIN devices
                          /\ ~CreateDenied(req.user, devices[req.targetDeviceId].networkId,
                                           req.messageType)
                          /\ OnlineBaseStations(devices,
                                 devices[req.targetDeviceId].networkId) = {})
                            => res.status = 400 /\ commands' = commands
        /\ \A c \in DOMAIN commands :
              returned'[c] # returned[c] =>
                  \E r \in Connections :
                      /\ slots[r].pc = "poll_mark"
                      /\ slots'[r].res = Some([Response(200, "") EXCEPT !.commandId = Some(c)])
                      /\ \E b \in slots[r].device :
                            /\ devices[b].deviceType = "BASE_STATION"
                            /\ devices[b].networkId
                                 = devices[The(commands[c].targetDeviceId)].networkId
                            /\ devices[b].networkId = commands[c].networkId
      ]_vars

\* A command of each network has been created and returned to a base station,
\* and one of them has been acknowledged.
C37_Witness ==
    \E c, d \in DOMAIN commands :
        /\ commands[c].networkId # commands[d].networkId
        /\ returned[c] > 0
        /\ returned[d] > 0
        /\ commands[c].status = "COMPLETED"
        /\ commands[d].status = "PROCESSING"

(***************************************************************************)
(* SpecReplay: one telemetry request and one poll, each written once and   *)
(* submitted again and again, byte for byte, while time passes: to a       *)
(* millisecond later, to the end of the window and past it.                *)
(***************************************************************************)
ReplayRequests ==
    { DevicePost("telemetry", BoardF1, FreshTimestamp, SelfTelemetryBody, "compact"),
      DevicePoll(BoardB1, FreshTimestamp) }

ArriveReplay ==
    \E r \in GateConnections, req \in ReplayRequests :
        /\ req.op = "telemetry" => Reports < MaxReports
        /\ validateDeviceSignature(r, req)

\* The instants at which requests arrive: a millisecond after the first, at
\* the end of the window and a millisecond past it.
ReplayInstants ==
    { NowStart + 1, NowStart + DefaultMaxAgeSeconds * 1000,
      NowStart + DefaultMaxAgeSeconds * 1000 + 1 }

Elapse ==
    \E t \in ReplayInstants :
        /\ t > now
        /\ now' = t
        /\ UNCHANGED <<devices, commands, telemetry, slots, returned, probe>>

NextReplay ==
    \/ ArriveReplay
    \/ Elapse
    \/ \E r \in GateConnections :
           \/ pollFindBaseStation(r)
           \/ pollUpdateDevice(r)
           \/ pollFindCommand(r)
           \/ telemetryFindDevice(r)
           \/ telemetryUpdateDevice(r)
           \/ telemetryStore(r)

SpecReplay == Init /\ [][NextReplay]_vars

\* The request has been admitted and handled before: its record is stored
\* (telemetry), its base station has a lastPolled (poll).
HandledBefore(req) ==
    IF req.op = "telemetry" THEN Len(telemetry) > 0
    ELSE \E b \in DeviceByBoardId(devices, The(req.query)) : devices[b].lastPolled # Null

\* The age of the request's timestamp, in milliseconds.
AgeMs(req) == now - IsoInstants[The(req.timestamp)]

\* C38 (the gate keeps no replay state): a request that was admitted and
\* handled before is admitted again when it arrives with a timestamp at most
\* 300 s old and refused with 401 when older; every admitted telemetry request
\* appends a record and every admitted poll writes the base station's
\* lastPolled, a replayed one like the first.
C38_NoReplayState ==
    [][ \A r \in GateConnections :
          /\ (slots[r].pc \in {"idle", "done"} /\ slots'[r] # slots[r]) =>
                \A req \in slots'[r].req :
                    HandledBefore(req) =>
                        /\ AgeMs(req) <= DefaultMaxAgeSeconds * 1000 => slots'[r].pc = req.op
                        /\ AgeMs(req) > DefaultMaxAgeSeconds * 1000 =>
                              /\ slots'[r].pc = "done"
                              /\ \A res \in slots'[r].res : res.status = 401
          /\ (slots[r].pc = "telemetry_store" /\ slots'[r].pc = "done") =>
                /\ Len(telemetry') = Len(telemetry) + 1
                /\ \A res \in slots'[r].res : res.status = 201
          /\ (slots[r].pc = "poll_update" /\ slots'[r].pc = "poll_select") =>
                \A b \in slots[r].row : devices'[b].lastPolled = Some(now)
      ]_vars

\* The telemetry request has been handled twice, the second time at the age
\* of 300 s: two records of the same report are stored.
C38_Witness ==
    /\ Len(telemetry) = 2
    /\ telemetry[1].deviceId = telemetry[2].deviceId
    /\ telemetry[1].batteryVoltage = telemetry[2].batteryVoltage
    /\ telemetry[1].receivedAt = NowStart
    /\ telemetry[2].receivedAt = NowStart + DefaultMaxAgeSeconds * 1000
    /\ \E b \in DeviceByBoardId(devices, BoardB1) : devices[b].lastPolled = Some(NowStart + 1)

(***************************************************************************)
(* SpecLowBattery: the base station of net1 reports its own battery, just  *)
(* below and at the low-battery threshold and not at all, on two           *)
(* connections, and between its reports it polls and acknowledges, while   *)
(* the owner queues commands.                                              *)
(***************************************************************************)
ThresholdVoltages == { Null, Some(323), Some(324) }

LowBatteryReports ==
    { DevicePostQuery("telemetry", BoardB1, FreshTimestamp,
                      TelemetryBody(BoardB1, "MSG_TYPE_BATT", Null, batteryVoltage)) :
        batteryVoltage \in ThresholdVoltages }

LowBatteryRequests ==
    { DevicePoll(BoardB1, FreshTimestamp),
      DevicePost("ack", BoardB1, FreshTimestamp,
                 AckBody(Some(BoardB1), 1, TRUE, Null), "compact") }

ArriveLowBattery ==
    \/ \E r \in Connections, req \in LowBatteryReports :
           /\ Reports < MaxReports
           /\ validateDeviceSignature(r, req)
    \/ \E r \in GateConnections, req \in LowBatteryRequests :
           validateDeviceSignature(r, req)

NextLowBattery ==
    \/ ArriveLowBattery
    \/ PollSteps
    \/ AckSteps
    \/ \E r \in Connections :
           \/ telemetryFindDevice(r)
           \/ telemetryUpdateDevice(r)
           \/ telemetryStore(r)
    \/ \E r \in GateConnections : createCommand(r, "owner1", 3, "MSG_TYPE_PING", Null)

SpecLowBattery == Init /\ [][NextLowBattery]_vars

\* C39 (low-battery status is backed by the stored percentage): every device
\* whose status is LOW_BATTERY has a stored batteryPercent below 20.
C39_LowBatteryBacked ==
    \A d \in DOMAIN devices :
        devices[d].status = "LOW_BATTERY" =>
            \E batteryPercent \in devices[d].batteryPercent : batteryPercent < 20

\* The base station, which polled and reported 3.24 V earlier, is LOW_BATTERY
\* at 19 percent after its report of 3.23 V.
C39_Witness ==
    /\ \E b \in DeviceByBoardId(devices, BoardB1) :
          /\ devices[b].status = "LOW_BATTERY"
          /\ devices[b].batteryPercent = Some(19)
          /\ devices[b].lastPolled # Null
    /\ Len(telemetry) = 2
    /\ telemetry[1].batteryVoltage = Some(324)
    /\ telemetry[2].batteryVoltage = Some(323)

(***************************************************************************)
(* SpecFieldPoll: a provisioned field unit polls like a base station. The  *)
(* field unit and the base station of net1 poll on two connections while   *)
(* the owner queues commands for the field unit.                           *)
(***************************************************************************)
FieldPolls == { DevicePoll(b, FreshTimestamp) : b \in {BoardB1, BoardF1} }

NextFieldPoll ==
    \/ Arrive(FieldPolls)
    \/ PollSteps
    \/ \E r \in Connections, priority \in DispatchPriorities :
           createCommand(r, "owner1", 3, "MSG_TYPE_PING", priority)

SpecFieldPoll == Init /\ [][NextFieldPoll]_vars

\* The type of the device the gate admitted the request of connection r for.
AdmittedType(r) == devices[The(slots[r].device)].deviceType

\* C40 (only base stations receive commands): a poll the gate admitted for a
\* FIELD_UNIT is answered 404 in its first step, which changes no device and
\* no command, and goes no further; a command becomes PROCESSING only in the
\* step that returns it to a poll admitted for a BASE_STATION.
C40_OnlyBaseStationsReceive ==
    [][ /\ \A r \in Connections :
              (slots[r].pc = "poll" /\ slots'[r] # slots[r]
                 /\ AdmittedType(r) = "FIELD_UNIT") =>
                  /\ slots'[r].pc = "done"
                  /\ \A res \in slots'[r].res : res.status = 404
                  /\ devices' = devices
                  /\ commands' = commands
                  /\ returned' = returned
        /\ \A r \in Connections :
              slots[r].pc \in PollServingPcs => AdmittedType(r) = "BASE_STATION"
        /\ \A c \in DOMAIN commands :
              (commands'[c].status = "PROCESSING" /\ commands[c].status # "PROCESSING") =>
                  \E r \in Connections :
                      /\ slots[r].pc = "poll_mark"
                      /\ slots'[r].res = Some([Response(200, "") EXCEPT !.commandId = Some(c)])
                      /\ AdmittedType(r) = "BASE_STATION"
      ]_vars

\* The field unit's poll has been answered 404 while a command for it waits,
\* and another command has been returned to the base station.
C40_Witness ==
    /\ \E r \in Connections :
          /\ slots[r].pc = "done"
          /\ \E req \in slots[r].req : \E res \in slots[r].res :
                /\ req.op = "poll"
                /\ req.query = Some(BoardF1)
                /\ res.status = 404
                /\ res.error = "Base station not registered"
    /\ \E c, d \in DOMAIN commands :
          /\ commands[c].status = "PENDING"
          /\ commands[d].status = "PROCESSING" /\ returned[d] > 0
    /\ \A f \in DeviceByBoardId(devices, BoardF1) :
          devices[f].lastPolled = Null /\ devices[f].status = "OFFLINE"

====
